---- MODULE Spec2Model ----
(***************************************************************************)
(* A model of the derangements crate: the prefix-shift permutation         *)
(* generators (fast_permutations.rs), the restricted-permutation filters   *)
(* (restricted_permutations.rs), the generate-and-filter derangements      *)
(* (derangements.rs, derangements_iter.rs) and the range derangement       *)
(* recurrences (derangements_range.rs).                                    *)
(*                                                                         *)
(* Rust vectors are TLA+ sequences: the Rust element v[i] is v[i + 1].     *)
(* Every iterator is a record of its fields; its next() is an operator     *)
(* from the record to [self |-> the record after the call, ret |-> the     *)
(* returned Option], and one action per iterator applies it.               *)
(***************************************************************************)
EXTENDS Integers, Sequences, FiniteSets, TLC

\* Longest input handed to a permutation generator; its values are 0..MaxLen-1.
MaxLen == 3
\* Largest n for which the range derangement iterator is driven.
MaxN == 5
\* The size the tests of the range derangement functions count: 14833 entries.
LargeN == 8

VARIABLES
    iter,       \* the caller's input sequence, in the caller's order
    k,          \* the requested arrangement length
    fp,         \* a FastPermutations
    fp_out,     \* what fp returned in Some(..) up to its first None
    fp_last,    \* what the last call of fp.next() returned
    fp_done,    \* fp.next() has returned None
    dp,         \* a DistinctPermutations
    dp_out,
    dp_last,
    dp_done,
    ctor,       \* which constructor the caller used
    rp,         \* a RestrictedPermutations
    rp_out,
    rp_last,
    rp_done,
    n,          \* the argument of the range derangement functions
    dr_res,     \* what derangements_range(n) returned
    drf_res,    \* what derangements_range_fast(n) returned
    der_res,    \* what derangements(0..n, n) returned
    dri,        \* a DerangementsRangeIterator
    dri_out,
    dri_last,
    dri_done,
    di,         \* a Derangements (derangements_iter)
    di_out,
    di_last,
    di_done,
    mp,         \* a RestrictedPermutationsByMapIndex or ..ByMapValue
    mp_out,
    mp_last,
    mp_done,
    dd,         \* a DistinctDerangements
    dd_out,
    dd_last,
    dd_done

fpVars == <<fp, fp_out, fp_last, fp_done>>
dpVars == <<dp, dp_out, dp_last, dp_done>>
rpVars == <<rp, rp_out, rp_last, rp_done>>
fnVars == <<dr_res, drf_res, der_res>>
driVars == <<dri, dri_out, dri_last, dri_done>>
diVars == <<di, di_out, di_last, di_done>>
mpVars == <<mp, mp_out, mp_last, mp_done>>
ddVars == <<dd, dd_out, dd_last, dd_done>>

vars == <<iter, k, ctor, fpVars, dpVars, rpVars, n, fnVars, driVars,
          diVars, mpVars, ddVars>>

(***************************************************************************)
(* Values and Option<Vec<T>>                                               *)
(***************************************************************************)
Values == 0 .. (MaxLen - 1)

Inputs == UNION {[1 .. m -> Values] : m \in 0 .. MaxLen}

Some(v) == [tag |-> "Some", val |-> v]
None == [tag |-> "None", val |-> <<>>]
\* An index or slice out of range, or unwrap() of None: the call panics.
Panic == [tag |-> "Panic", val |-> <<>>]
\* No call has been made yet.
NoCall == [tag |-> "NoCall", val |-> <<>>]

\* The subtraction without the floor at 0.
saturating_sub_Unchecked(a, b) == a - b

\* usize::saturating_sub
saturating_sub(a, b) == IF a >= b THEN a - b ELSE 0

\* s with x put before the first element greater than x (s ascending).
RECURSIVE InsertAsc(_, _)
InsertAsc(s, x) ==
    IF s = <<>> THEN <<x>>
    ELSE IF x <= Head(s) THEN <<x>> \o s
    ELSE <<Head(s)>> \o InsertAsc(Tail(s), x)

\* Vec::sort_unstable on integers: the ascending rearrangement.
RECURSIVE sort_unstable(_)
sort_unstable(s) ==
    IF s = <<>> THEN <<>> ELSE InsertAsc(sort_unstable(Tail(s)), Head(s))

Reverse(s) == [j \in 1 .. Len(s) |-> s[Len(s) + 1 - j]]

\* Vec::sort_unstable_by(|a, b| b.cmp(a)): the descending rearrangement.
sort_unstable_desc(s) == Reverse(sort_unstable(s))

(***************************************************************************)
(* fast_permutations.rs                                                    *)
(***************************************************************************)
\* The prefix shift that does not save the shifted element before the loop
\* overwrites it.
PrefixShift_NoSave(buf, shift_index) ==
    [j \in 1 .. Len(buf) |->
        IF j = 1 THEN buf[IF shift_index = 0 THEN 1 ELSE shift_index]
        ELSE IF j <= shift_index + 1 THEN buf[j - 1]
        ELSE buf[j]]

\* The prefix shift: the element at shift_index goes to the front, and the
\* elements before it move one place right.
PrefixShift(buf, shift_index) ==
    [j \in 1 .. Len(buf) |->
        IF j = 1 THEN buf[shift_index + 1]
        ELSE IF j <= shift_index + 1 THEN buf[j - 1]
        ELSE buf[j]]

\* The exhaustion test shared by both generators.
Exhausted(buffer, index) ==
    LET has_two_next == index + 2 < Len(buffer)
    IN  /\ ~has_two_next
        /\ \/ Len(buffer) <= index + 1
           \/ buffer[1] <= buffer[index + 2]

\* ShiftIndex never choosing index + 2.
ShiftIndex_AlwaysNext(buffer, index) == index + 1

\* ShiftIndex comparing with < where the code has <=.
ShiftIndex_Strict(buffer, index) ==
    LET has_two_next == index + 2 < Len(buffer)
    IN  IF has_two_next /\ buffer[index + 3] < buffer[index + 1]
        THEN index + 2
        ELSE index + 1

\* ShiftIndex comparing the element two ahead with the one just ahead.
ShiftIndex_WrongNeighbour(buffer, index) ==
    LET has_two_next == index + 2 < Len(buffer)
    IN  IF has_two_next /\ buffer[index + 3] <= buffer[index + 2]
        THEN index + 2
        ELSE index + 1

\* ShiftIndex taking the element two places ahead without any test.
ShiftIndex_AlwaysTwoAhead(buffer, index) == index + 2

ShiftIndex(buffer, index) ==
    LET has_two_next == index + 2 < Len(buffer)
    IN  IF has_two_next /\ buffer[index + 3] <= buffer[index + 1]
        THEN index + 2
        ELSE index + 1

\* UpdateIndex without the reset to 0.
UpdateIndex_NoReset(buffer, index) == index + 1

\* UpdateIndex resetting also when the first two elements are equal.
UpdateIndex_NonStrict(buffer, index) ==
    IF buffer[1] <= buffer[2] THEN 0 ELSE index + 1

UpdateIndex(buffer, index) ==
    IF buffer[1] < buffer[2] THEN 0 ELSE index + 1

\* Prefix with the inclusive range values[0..=k].
Prefix_OffByOne(values, kk) ==
    IF kk + 1 > Len(values) THEN Panic ELSE Some(SubSeq(values, 1, kk + 1))

\* Prefix giving the whole vector when k exceeds the length.
Prefix_Clamped(values, kk) ==
    Some(SubSeq(values, 1, IF kk > Len(values) THEN Len(values) ELSE kk))

\* values[0..k].to_owned(): panics when k exceeds the length.
Prefix(values, kk) ==
    IF kk > Len(values) THEN Panic ELSE Some(SubSeq(values, 1, kk))

\* fast_permutations leaving the values in the caller's order.
fast_permutations_Unsorted(it, kk) ==
    LET length == Len(it)
    IN  [buffer |-> [j \in 1 .. length |-> length - j],
         values |-> it,
         start  |-> TRUE,
         index  |-> saturating_sub(length, 2),
         k      |-> kk]

fast_permutations(it, kk) ==
    LET values == sort_unstable(it)
        length == Len(values)
    IN  [buffer |-> [j \in 1 .. length |-> length - j],
         values |-> values,
         start  |-> TRUE,
         index  |-> saturating_sub(length, 2),
         k      |-> kk]

\* FastPermutations::next raising the start flag again when it is exhausted.
\* FastPermutations::next whose exhaustion test looks at k: with k = 0 only
\* the start arrangement is emitted.
FastPermutations_next_EmptyForZeroK(self) ==
    IF self.start
    THEN [self |-> [self EXCEPT !.start = FALSE],
          ret  |-> Prefix(self.values, self.k)]
    ELSE IF self.k = 0 \/ Exhausted(self.buffer, self.index)
    THEN [self |-> self, ret |-> None]
    ELSE
        LET shift_index == ShiftIndex(self.buffer, self.index)
            buffer == PrefixShift(self.buffer, shift_index)
            values == PrefixShift(self.values, shift_index)
        IN  [self |-> [self EXCEPT !.buffer = buffer,
                                   !.values = values,
                                   !.index = UpdateIndex(buffer, self.index)],
             ret  |-> Prefix(values, self.k)]

FastPermutations_next_Restarting(self) ==
    IF self.start
    THEN [self |-> [self EXCEPT !.start = FALSE],
          ret  |-> Prefix(self.values, self.k)]
    ELSE IF Exhausted(self.buffer, self.index)
    THEN [self |-> [self EXCEPT !.start = TRUE], ret |-> None]
    ELSE
        LET shift_index == ShiftIndex(self.buffer, self.index)
            buffer == PrefixShift(self.buffer, shift_index)
            values == PrefixShift(self.values, shift_index)
        IN  [self |-> [self EXCEPT !.buffer = buffer,
                                   !.values = values,
                                   !.index = UpdateIndex(buffer, self.index)],
             ret  |-> Prefix(values, self.k)]

FastPermutations_next(self) ==
    IF self.start
    THEN [self |-> [self EXCEPT !.start = FALSE],
          ret  |-> Prefix(self.values, self.k)]
    ELSE IF Exhausted(self.buffer, self.index)
    THEN [self |-> self, ret |-> None]
    ELSE
        LET shift_index == ShiftIndex(self.buffer, self.index)
            buffer == PrefixShift(self.buffer, shift_index)
            values == PrefixShift(self.values, shift_index)
        IN  [self |-> [self EXCEPT !.buffer = buffer,
                                   !.values = values,
                                   !.index = UpdateIndex(buffer, self.index)],
             ret  |-> Prefix(values, self.k)]

\* distinct_permutations sorting its buffer in ascending order.
distinct_permutations_Ascending(it) ==
    LET buffer == sort_unstable(it)
        length == Len(buffer)
    IN  [buffer |-> buffer,
         start  |-> TRUE,
         index  |-> saturating_sub(length, 2)]

distinct_permutations(it) ==
    LET buffer == sort_unstable_desc(it)
        length == Len(buffer)
    IN  [buffer |-> buffer,
         start  |-> TRUE,
         index  |-> saturating_sub(length, 2)]

DistinctPermutations_next(self) ==
    IF self.start
    THEN [self |-> [self EXCEPT !.start = FALSE], ret |-> Some(self.buffer)]
    ELSE IF Exhausted(self.buffer, self.index)
    THEN [self |-> self, ret |-> None]
    ELSE
        LET shift_index == ShiftIndex(self.buffer, self.index)
            buffer == PrefixShift(self.buffer, shift_index)
        IN  [self |-> [self EXCEPT !.buffer = buffer,
                                   !.index = UpdateIndex(buffer, self.index)],
             ret  |-> Some(buffer)]

(***************************************************************************)
(* restricted_permutations.rs                                              *)
(***************************************************************************)
restricted_permutations(it, kk, restrict) ==
    [permutations |-> fast_permutations(it, kk),
     restrict     |-> restrict]

\* restricted_permutations_by_self restricting to the sorted values.
restricted_permutations_by_self_Sorted(it, kk) ==
    LET permutations == fast_permutations(it, kk)
    IN  [permutations |-> permutations,
         restrict     |-> permutations.values]

restricted_permutations_by_self(it, kk) ==
    LET permutations == fast_permutations(it, kk)
        restrict == it
    IN  [permutations |-> permutations,
         restrict     |-> restrict]

\* RestrictedAny with all() in the place of any().
RestrictedAny_All(restrict, x) ==
    IF \E i \in 1 .. Len(x) : i > Len(restrict) THEN "panic"
    ELSE IF \A i \in 1 .. Len(x) : restrict[i] = x[i] THEN "true"
    ELSE "false"

\* x.iter().enumerate().any(|x| self.restrict[x.0] == *x.1): any() stops at
\* the first match, and restrict[i] panics when i is not an index of restrict.
RestrictedAny(restrict, x) ==
    LET matches == {i \in 1 .. Len(x) : i <= Len(restrict) /\ restrict[i] = x[i]}
        missing == {i \in 1 .. Len(x) : i > Len(restrict)}
    IN  IF matches # {} THEN "true"
        ELSE IF missing # {} THEN "panic"
        ELSE "false"

\* RestrictedPermutations::next giving up at the first rejected arrangement.
RestrictedPermutations_next_NoSkip(self) ==
    LET r == FastPermutations_next(self.permutations)
        s == [self EXCEPT !.permutations = r.self]
    IN  IF r.ret.tag # "Some" THEN [self |-> s, ret |-> r.ret]
        ELSE IF RestrictedAny(s.restrict, r.ret.val) = "false"
        THEN [self |-> s, ret |-> r.ret]
        ELSE [self |-> s, ret |-> None]

RECURSIVE RestrictedPermutations_next(_)
RestrictedPermutations_next(self) ==
    LET r == FastPermutations_next(self.permutations)
        s == [self EXCEPT !.permutations = r.self]
    IN  IF r.ret.tag # "Some" THEN [self |-> s, ret |-> r.ret]
        ELSE
            LET any == RestrictedAny(s.restrict, r.ret.val)
            IN  IF any = "panic" THEN [self |-> s, ret |-> Panic]
                ELSE IF any = "false" THEN [self |-> s, ret |-> r.ret]
                ELSE RestrictedPermutations_next(s)

\* A HashMap<K, Vec<V>> is a function from its keys to sequences.
restricted_permutations_by_map_index(it, kk, restrict) ==
    [permutations |-> fast_permutations(it, kk), restrict |-> restrict]

\* The closure of the index map asking for the key only.
MapIndexAny_KeyOnly(restrict, x) ==
    \E i \in 1 .. Len(x) : (i - 1) \in DOMAIN restrict

\* any(|x| if restrict.contains_key(&x.0) { restrict[&x.0].contains(x.1) }
\*         else { false })
MapIndexAny(restrict, x) ==
    \E i \in 1 .. Len(x) :
        IF (i - 1) \in DOMAIN restrict
        THEN \E j \in 1 .. Len(restrict[i - 1]) : restrict[i - 1][j] = x[i]
        ELSE FALSE

\* RestrictedPermutationsByMapIndex::next trying one more arrangement after
\* a rejected one and handing that out unexamined.
RestrictedPermutationsByMapIndex_next_OneRetry(self) ==
    LET r == FastPermutations_next(self.permutations)
        s == [self EXCEPT !.permutations = r.self]
    IN  IF r.ret.tag # "Some" THEN [self |-> s, ret |-> r.ret]
        ELSE IF ~MapIndexAny(s.restrict, r.ret.val) THEN [self |-> s, ret |-> r.ret]
        ELSE LET q == FastPermutations_next(s.permutations)
             IN  [self |-> [s EXCEPT !.permutations = q.self], ret |-> q.ret]

RECURSIVE RestrictedPermutationsByMapIndex_next(_)
RestrictedPermutationsByMapIndex_next(self) ==
    LET r == FastPermutations_next(self.permutations)
        s == [self EXCEPT !.permutations = r.self]
    IN  IF r.ret.tag # "Some" THEN [self |-> s, ret |-> r.ret]
        ELSE IF ~MapIndexAny(s.restrict, r.ret.val) THEN [self |-> s, ret |-> r.ret]
        ELSE RestrictedPermutationsByMapIndex_next(s)

\* The constructor of the value map dropping the restriction.
restricted_permutations_by_map_value_Unrestricted(it, kk, restrict) ==
    [permutations |-> fast_permutations(it, kk), restrict |-> <<>>]

restricted_permutations_by_map_value(it, kk, restrict) ==
    [permutations |-> fast_permutations(it, kk), restrict |-> restrict]

\* The closure of the value map looking the position up as the key.
MapValueAny_ByIndex(restrict, x) ==
    \E i \in 1 .. Len(x) :
        IF (i - 1) \in DOMAIN restrict
        THEN \E j \in 1 .. Len(restrict[i - 1]) : restrict[i - 1][j] = x[i]
        ELSE FALSE

\* any(|x| if restrict.contains_key(x.1) { restrict[x.1].contains(&x.0) }
\*         else { false })
MapValueAny(restrict, x) ==
    \E i \in 1 .. Len(x) :
        IF x[i] \in DOMAIN restrict
        THEN \E j \in 1 .. Len(restrict[x[i]]) : restrict[x[i]][j] = i - 1
        ELSE FALSE

RECURSIVE RestrictedPermutationsByMapValue_next(_)
RestrictedPermutationsByMapValue_next(self) ==
    LET r == FastPermutations_next(self.permutations)
        s == [self EXCEPT !.permutations = r.self]
    IN  IF r.ret.tag # "Some" THEN [self |-> s, ret |-> r.ret]
        ELSE IF ~MapValueAny(s.restrict, r.ret.val) THEN [self |-> s, ret |-> r.ret]
        ELSE RestrictedPermutationsByMapValue_next(s)

(***************************************************************************)
(* derangements.rs                                                         *)
(***************************************************************************)
\* The concatenation of the sequences of ss, in order (halving keeps the
\* evaluation shallow).
RECURSIVE Flatten(_)
Flatten(ss) ==
    IF ss = <<>> THEN <<>>
    ELSE IF Len(ss) = 1 THEN ss[1]
    ELSE LET half == Len(ss) \div 2
         IN  Flatten(SubSeq(ss, 1, half)) \o Flatten(SubSeq(ss, half + 1, Len(ss)))

\* The elements of a finite set of integers in ascending order.
RECURSIVE Ascending(_)
Ascending(S) ==
    IF S = {} THEN <<>>
    ELSE LET m == CHOOSE x \in S : \A y \in S : x <= y
         IN  <<m>> \o Ascending(S \ {m})

\* The kk-permutations of the positions in avail, in lexicographic order.
RECURSIVE LexPermutations(_, _)
LexPermutations(avail, kk) ==
    IF kk = 0 THEN << <<>> >>
    ELSE LET order == Ascending(avail)
         IN  Flatten([a \in 1 .. Len(order) |->
                 LET rest == LexPermutations(avail \ {order[a]}, kk - 1)
                 IN  [b \in 1 .. Len(rest) |-> <<order[a]>> \o rest[b]]])

\* Itertools::permutations(kk): the kk-permutations of the input, chosen by
\* position, in lexicographic order of the positions.
permutations(it, kk) ==
    LET idx == LexPermutations(1 .. Len(it), kk)
    IN  [a \in 1 .. Len(idx) |-> [b \in 1 .. kk |-> it[idx[a][b]]]]

\* The comparison with a failed conversion defaulting to position 0.
IndexEqualsValue_DefaultZero(i, v) == i = (IF v >= 0 THEN v ELSE 0)

\* x.0 == usize::try_from(x.1).unwrap_or(usize::MAX): a value that does not
\* convert (a negative one) becomes usize::MAX, which is no position.
IndexEqualsValue(i, v) == v >= 0 /\ i = v

NoFixedPoint(x) == ~ \E i \in 1 .. Len(x) : IndexEqualsValue(i - 1, x[i])

derangements(it, kk) == SelectSeq(permutations(it, kk), NoFixedPoint)

(***************************************************************************)
(* derangements_iter.rs                                                    *)
(***************************************************************************)
\* Itertools' Permutations is held as the arrangements it has yet to give.
derangements_iter(it, kk) ==
    [permutations |-> [pending |-> permutations(it, kk)]]

\* self.permutations.next()
Permutations_next(self) ==
    IF self.pending # <<>>
    THEN [self |-> [pending |-> Tail(self.pending)], ret |-> Some(Head(self.pending))]
    ELSE [self |-> self, ret |-> None]

RECURSIVE Derangements_next(_)
Derangements_next(self) ==
    LET r == Permutations_next(self.permutations)
        s == [self EXCEPT !.permutations = r.self]
    IN  IF r.ret.tag # "Some" THEN [self |-> s, ret |-> None]
        ELSE IF ~ \E i \in 1 .. Len(r.ret.val) :
                     IndexEqualsValue(i - 1, r.ret.val[i])
        THEN [self |-> s, ret |-> r.ret]
        ELSE Derangements_next(s)

distinct_derangements(it) ==
    LET buffer == sort_unstable_desc(it)
        length == Len(buffer)
    IN  [buffer |-> buffer,
         start  |-> TRUE,
         index  |-> saturating_sub(length, 2)]

\* The test counting positions from 1.
AnyIndexIsValue_OneBased(buffer) == \E i \in 1 .. Len(buffer) : i = buffer[i]

\* buffer.iter().enumerate().any(|x| x.0 == usize::from(*x.1)): the items
\* are of an unsigned type no wider than usize.
AnyIndexIsValue(buffer) == \E i \in 1 .. Len(buffer) : i - 1 = buffer[i]

\* DistinctDerangements::next ending the first call when the start buffer
\* is rejected.
DistinctDerangements_next_RejectedStartEnds(self) ==
    IF self.start
    THEN [self |-> [self EXCEPT !.start = FALSE],
          ret  |-> IF AnyIndexIsValue(self.buffer) THEN None ELSE Some(self.buffer)]
    ELSE IF Exhausted(self.buffer, self.index) THEN [self |-> self, ret |-> None]
    ELSE
        LET shift_index == ShiftIndex(self.buffer, self.index)
            buffer == PrefixShift(self.buffer, shift_index)
        IN  [self |-> [self EXCEPT !.buffer = buffer,
                                   !.index = UpdateIndex(buffer, self.index)],
             ret  |-> IF AnyIndexIsValue(buffer) THEN None ELSE Some(buffer)]

\* A start whose buffer is rejected goes on to the shift in the same call.
RECURSIVE DistinctDerangements_next(_)
DistinctDerangements_next(self) ==
    IF self.start /\ ~AnyIndexIsValue(self.buffer)
    THEN [self |-> [self EXCEPT !.start = FALSE], ret |-> Some(self.buffer)]
    ELSE
        LET s == [self EXCEPT !.start = FALSE]
        IN  IF Exhausted(s.buffer, s.index) THEN [self |-> s, ret |-> None]
            ELSE
                LET shift_index == ShiftIndex(s.buffer, s.index)
                    buffer == PrefixShift(s.buffer, shift_index)
                    shifted == [s EXCEPT !.buffer = buffer,
                                         !.index = UpdateIndex(buffer, s.index)]
                IN  IF ~AnyIndexIsValue(buffer)
                    THEN [self |-> shifted, ret |-> Some(buffer)]
                    ELSE DistinctDerangements_next(shifted)

multiset_permutations(it) ==
    LET buffer == sort_unstable_desc(it)
        length == Len(buffer)
    IN  [buffer |-> buffer,
         start  |-> TRUE,
         index  |-> saturating_sub(length, 2)]

MultisetPermutations_next(self) ==
    IF self.start
    THEN [self |-> [self EXCEPT !.start = FALSE], ret |-> Some(self.buffer)]
    ELSE IF Exhausted(self.buffer, self.index)
    THEN [self |-> self, ret |-> None]
    ELSE
        LET shift_index == ShiftIndex(self.buffer, self.index)
            buffer == PrefixShift(self.buffer, shift_index)
        IN  [self |-> [self EXCEPT !.buffer = buffer,
                                   !.index = UpdateIndex(buffer, self.index)],
             ret  |-> Some(buffer)]

\* The Rust range 0..m as a sequence.
Range(m) == [i \in 1 .. m |-> i - 1]

(***************************************************************************)
(* derangements_range.rs                                                   *)
(***************************************************************************)
\* The children of a derangement lag of size m - 1: for each split, m - 1
\* is put at split and the element it displaces is pushed at the end.
Lag1Children(lag, m) ==
    [split \in 1 .. Len(lag) |->
        Append([i \in 1 .. Len(lag) |-> IF i = split THEN m - 1 ELSE lag[i]],
               lag[split])]

\* Lag2Pass without *el = k + 1.
Lag2Pass_NoBump(temp2, kk, m) ==
    LET temp == Flatten([i \in 1 .. Len(temp2) |->
                    IF i - 1 = kk THEN <<m - 1, temp2[i]>> ELSE <<temp2[i]>>])
    IN  [temp2 |-> temp2, temp |-> Append(temp, kk)]

\* One pass of the inner loop for kk over temp2: temp2 afterwards, and temp.
Lag2Pass(temp2, kk, m) ==
    LET bumped == [i \in 1 .. Len(temp2) |->
                      IF temp2[i] = kk THEN kk + 1 ELSE temp2[i]]
        temp == Flatten([i \in 1 .. Len(temp2) |->
                    IF i - 1 = kk THEN <<m - 1, bumped[i]>> ELSE <<bumped[i]>>])
    IN  [temp2 |-> bumped, temp |-> Append(temp, kk)]

\* for k in (0..m - 2).rev(): the children for kk, kk - 1, .., 0, temp2
\* being carried from one pass to the next.
RECURSIVE Lag2Loop(_, _, _)
Lag2Loop(temp2, kk, m) ==
    IF kk < 0 THEN <<>>
    ELSE LET pass == Lag2Pass(temp2, kk, m)
         IN  <<pass.temp>> \o Lag2Loop(pass.temp2, kk - 1, m)

\* The children of a derangement lag of size m - 2.
Lag2Children(lag, m) ==
    <<lag \o <<m - 1, m - 2>>>> \o Lag2Loop(lag, m - 3, m)

\* Recurrence with the loop over lag2 run before the loop over lag1.
Recurrence_Lag2First(lag1, lag2, m) ==
    Flatten([a \in 1 .. Len(lag2) |-> Lag2Children(lag2[a], m)])
        \o Flatten([a \in 1 .. Len(lag1) |-> Lag1Children(lag1[a], m)])

\* The body shared by both functions: the derangements of size m from those
\* of size m - 1 (lag1) and of size m - 2 (lag2).
Recurrence(lag1, lag2, m) ==
    Flatten([a \in 1 .. Len(lag1) |-> Lag1Children(lag1[a], m)])
        \o Flatten([a \in 1 .. Len(lag2) |-> Lag2Children(lag2[a], m)])

\* derangements_range with the results of its two base cases exchanged.
RECURSIVE derangements_range_SwappedBase(_)
derangements_range_SwappedBase(m) ==
    IF m = 1 THEN << <<>> >>
    ELSE IF m = 0 THEN <<>>
    ELSE Recurrence(derangements_range_SwappedBase(m - 1),
                    derangements_range_SwappedBase(m - 2), m)

RECURSIVE derangements_range(_)
derangements_range(m) ==
    IF m = 1 THEN <<>>
    ELSE IF m = 0 THEN << <<>> >>
    ELSE Recurrence(derangements_range(m - 1), derangements_range(m - 2), m)

\* FastLoop keeping lag2 where the code moves lag1 into it.
RECURSIVE FastLoop_StaleLag2(_, _, _, _)
FastLoop_StaleLag2(j, m, lag2, lag1) ==
    LET lag0 == Recurrence(lag1, lag2, j)
    IN  IF j < m THEN FastLoop_StaleLag2(j + 1, m, lag2, lag0) ELSE lag0

\* for j in 2..n + 1, from iteration j on.
RECURSIVE FastLoop(_, _, _, _)
FastLoop(j, m, lag2, lag1) ==
    LET lag0 == Recurrence(lag1, lag2, j)
    IN  IF j < m THEN FastLoop(j + 1, m, lag1, lag0) ELSE lag0

derangements_range_fast(m) ==
    IF m = 1 THEN <<>>
    ELSE IF m = 0 THEN << <<>> >>
    ELSE FastLoop(2, m, derangements_range(0), derangements_range(1))

\* derangements_by_range starting count at 0, so that the first call pulls
\* no inner derangement.
derangements_by_range_NoFirstPull(m) ==
    [lag1_done |-> FALSE,
     lag       |-> <<>>,
     init      |-> TRUE,
     n         |-> m,
     curr_lag  |-> <<>>,
     count     |-> 0]

\* Option<Box<DerangementsRangeIterator>>: <<>> is None, <<it>> is Some(it).
derangements_by_range(m) ==
    [lag1_done |-> FALSE,
     lag       |-> <<>>,
     init      |-> TRUE,
     n         |-> m,
     curr_lag  |-> <<>>,
     count     |-> saturating_sub(m, 1)]

Swap(v, a, b) == [v EXCEPT ![a + 1] = v[b + 1], ![b + 1] = v[a + 1]]

\* Vec::insert(i, x)
Insert(v, i, x) == SubSeq(v, 1, i) \o <<x>> \o SubSeq(v, i + 1, Len(v))

\* Generate without self.count += 1.
Generate_KeepsCount(self) ==
    IF ~self.lag1_done
    THEN LET new == Append(self.curr_lag, self.n - 1)
         IN  IF self.count >= Len(new) \/ self.n - 1 >= Len(new)
             THEN [self |-> self, ret |-> Panic]
             ELSE [self |-> self,
                   ret  |-> Some(Swap(new, self.count, self.n - 1))]
    ELSE IF self.count = 0
    THEN [self |-> self,
          ret  |-> Some(self.curr_lag \o <<self.n - 1, self.n - 2>>)]
    ELSE
        LET i == self.n - 2 - self.count
            found == {j \in 1 .. Len(self.curr_lag) : self.curr_lag[j] = i}
        IN  IF found = {} THEN [self |-> self, ret |-> Panic]
            ELSE
                LET j == CHOOSE a \in found : \A b \in found : a <= b
                    new == [self.curr_lag EXCEPT ![j] = @ + 1]
                    bumped == [self EXCEPT !.curr_lag = new]
                IN  IF i > Len(new) THEN [self |-> bumped, ret |-> Panic]
                    ELSE [self |-> bumped,
                          ret  |-> Some(Append(Insert(new, i, self.n - 1), i))]

\* Generate without self.curr_lag[j] += 1.
Generate_KeepsCurrLag(self) ==
    IF ~self.lag1_done
    THEN LET new == Append(self.curr_lag, self.n - 1)
         IN  IF self.count >= Len(new) \/ self.n - 1 >= Len(new)
             THEN [self |-> self, ret |-> Panic]
             ELSE [self |-> [self EXCEPT !.count = @ + 1],
                   ret  |-> Some(Swap(new, self.count, self.n - 1))]
    ELSE IF self.count = 0
    THEN [self |-> [self EXCEPT !.count = @ + 1],
          ret  |-> Some(self.curr_lag \o <<self.n - 1, self.n - 2>>)]
    ELSE
        LET i == self.n - 2 - self.count
            found == {j \in 1 .. Len(self.curr_lag) : self.curr_lag[j] = i}
        IN  IF found = {} THEN [self |-> self, ret |-> Panic]
            ELSE
                LET j == CHOOSE a \in found : \A b \in found : a <= b
                    new == [self.curr_lag EXCEPT ![j] = @ + 1]
                IN  IF i > Len(new) THEN [self |-> self, ret |-> Panic]
                    ELSE [self |-> [self EXCEPT !.count = @ + 1],
                          ret  |-> Some(Append(Insert(new, i, self.n - 1), i))]

\* The second half of next(): the derangement built from curr_lag.
Generate(self) ==
    IF ~self.lag1_done
    THEN LET new == Append(self.curr_lag, self.n - 1)
         IN  IF self.count >= Len(new) \/ self.n - 1 >= Len(new)
             THEN [self |-> self, ret |-> Panic]
             ELSE [self |-> [self EXCEPT !.count = @ + 1],
                   ret  |-> Some(Swap(new, self.count, self.n - 1))]
    ELSE IF self.count = 0
    THEN [self |-> [self EXCEPT !.count = @ + 1],
          ret  |-> Some(self.curr_lag \o <<self.n - 1, self.n - 2>>)]
    ELSE
        LET i == self.n - 2 - self.count
            found == {j \in 1 .. Len(self.curr_lag) : self.curr_lag[j] = i}
        IN  IF found = {} THEN [self |-> self, ret |-> Panic]
            ELSE
                LET j == CHOOSE a \in found : \A b \in found : a <= b
                    new == [self.curr_lag EXCEPT ![j] = @ + 1]
                    bumped == [self EXCEPT !.curr_lag = new]
                IN  IF i > Len(new) THEN [self |-> bumped, ret |-> Panic]
                    ELSE [self |-> [bumped EXCEPT !.count = @ + 1],
                          ret  |-> Some(Append(Insert(new, i, self.n - 1), i))]

RECURSIVE DerangementsRangeIterator_next(_)
DerangementsRangeIterator_next(self) ==
    IF self.n = 0
    THEN IF self.lag1_done
         THEN [self |-> self, ret |-> None]
         ELSE [self |-> [self EXCEPT !.lag1_done = TRUE], ret |-> Some(<<>>)]
    ELSE IF self.n = 1 THEN [self |-> self, ret |-> None]
    ELSE
        LET s1 == IF self.init
                  THEN [self EXCEPT !.init = FALSE,
                                    !.lag = <<derangements_by_range(self.n - 1)>>]
                  ELSE self
        IN  IF s1.count # s1.n - 1 THEN Generate(s1)
            ELSE
                LET next == DerangementsRangeIterator_next(s1.lag[1])
                    s2 == [s1 EXCEPT !.count = 0, !.lag = <<next.self>>]
                IN  IF next.ret.tag = "Panic" THEN [self |-> s2, ret |-> Panic]
                    ELSE IF next.ret.tag = "Some"
                    THEN Generate([s2 EXCEPT !.curr_lag = next.ret.val])
                    ELSE IF s2.lag1_done THEN [self |-> s2, ret |-> None]
                    ELSE
                        LET next2 == DerangementsRangeIterator_next(
                                         derangements_by_range(s2.n - 2))
                            s3 == [s2 EXCEPT !.lag1_done = TRUE,
                                             !.lag = <<next2.self>>]
                        IN  IF next2.ret.tag = "Some"
                            THEN Generate([s3 EXCEPT !.curr_lag = next2.ret.val])
                            ELSE [self |-> s3, ret |-> next2.ret]

(***************************************************************************)
(* Running an iterator: the caller's loop                                  *)
(***************************************************************************)
\* The emissions recorded so far, extended by a call's return value; the
\* record stops at the first None.
Record(out, done, ret) ==
    IF ~done /\ ret.tag = "Some" THEN Append(out, ret.val) ELSE out

\* Iterator::collect_vec on a FastPermutations: next() until the first None.
RECURSIVE MultisetPermutations_collect(_)
MultisetPermutations_collect(self) ==
    LET r == MultisetPermutations_next(self)
    IN  IF r.ret.tag = "Some"
        THEN <<r.ret.val>> \o MultisetPermutations_collect(r.self)
        ELSE <<>>

RECURSIVE FastPermutations_collect(_)
FastPermutations_collect(self) ==
    LET r == FastPermutations_next(self)
    IN  IF r.ret.tag = "Some"
        THEN <<r.ret.val>> \o FastPermutations_collect(r.self)
        ELSE <<>>

RECURSIVE RestrictedPermutations_collect(_)
RestrictedPermutations_collect(self) ==
    LET r == RestrictedPermutations_next(self)
    IN  IF r.ret.tag = "Some"
        THEN <<r.ret.val>> \o RestrictedPermutations_collect(r.self)
        ELSE <<>>

RECURSIVE RestrictedPermutationsByMapIndex_collect(_)
RestrictedPermutationsByMapIndex_collect(self) ==
    LET r == RestrictedPermutationsByMapIndex_next(self)
    IN  IF r.ret.tag = "Some"
        THEN <<r.ret.val>> \o RestrictedPermutationsByMapIndex_collect(r.self)
        ELSE <<>>

RECURSIVE RestrictedPermutationsByMapValue_collect(_)
RestrictedPermutationsByMapValue_collect(self) ==
    LET r == RestrictedPermutationsByMapValue_next(self)
    IN  IF r.ret.tag = "Some"
        THEN <<r.ret.val>> \o RestrictedPermutationsByMapValue_collect(r.self)
        ELSE <<>>

(***************************************************************************)
(* The iterators and results a specification leaves alone                  *)
(***************************************************************************)
IdleFP ==
    /\ fp = fast_permutations(<<>>, 0)
    /\ fp_out = <<>>
    /\ fp_last = NoCall
    /\ fp_done = FALSE

IdleDP ==
    /\ dp = distinct_permutations(<<>>)
    /\ dp_out = <<>>
    /\ dp_last = NoCall
    /\ dp_done = FALSE

IdleRP ==
    /\ rp = restricted_permutations(<<>>, 0, <<>>)
    /\ rp_out = <<>>
    /\ rp_last = NoCall
    /\ rp_done = FALSE

IdleDI ==
    /\ di = derangements_iter(<<>>, 0)
    /\ di_out = <<>>
    /\ di_last = NoCall
    /\ di_done = FALSE

IdleMP ==
    /\ mp = restricted_permutations_by_map_index(<<>>, 0, <<>>)
    /\ mp_out = <<>>
    /\ mp_last = NoCall
    /\ mp_done = FALSE

IdleDD ==
    /\ dd = distinct_derangements(<<>>)
    /\ dd_out = <<>>
    /\ dd_last = NoCall
    /\ dd_done = FALSE

IdleRange ==
    /\ n = 0
    /\ dr_res = NoCall
    /\ drf_res = NoCall
    /\ der_res = NoCall
    /\ dri = derangements_by_range(0)
    /\ dri_out = <<>>
    /\ dri_last = NoCall
    /\ dri_done = FALSE

(***************************************************************************)
(* Specification of FastPermutations                                       *)
(***************************************************************************)
InitFP ==
    /\ iter \in Inputs
    /\ k \in 0 .. Len(iter)
    /\ ctor = "fast_permutations"
    /\ fp = fast_permutations(iter, k)
    /\ fp_out = <<>>
    /\ fp_last = NoCall
    /\ fp_done = FALSE
    /\ IdleDP /\ IdleRP /\ IdleRange /\ IdleDI /\ IdleMP /\ IdleDD

FPNext ==
    /\ fp_last.tag # "Panic"
    /\ LET r == FastPermutations_next(fp)
       IN  /\ fp' = r.self
           /\ fp_last' = r.ret
           /\ fp_out' = Record(fp_out, fp_done, r.ret)
           /\ fp_done' = (fp_done \/ r.ret.tag = "None")
    /\ UNCHANGED <<iter, k, ctor, dpVars, rpVars, n, fnVars, driVars,
                 diVars, mpVars, ddVars>>

SpecFP == InitFP /\ [][FPNext]_vars

\* FastPermutations built with any k, also one beyond the input's length:
\* fast_permutations takes every usize.
InitFPAnyK ==
    /\ iter \in Inputs
    /\ k \in 0 .. (MaxLen + 1)
    /\ ctor = "fast_permutations"
    /\ fp = fast_permutations(iter, k)
    /\ fp_out = <<>>
    /\ fp_last = NoCall
    /\ fp_done = FALSE
    /\ IdleDP /\ IdleRP /\ IdleRange /\ IdleDI /\ IdleMP /\ IdleDD

SpecFPAnyK == InitFPAnyK /\ [][FPNext]_vars

(***************************************************************************)
(* Specification of DistinctPermutations                                   *)
(***************************************************************************)
InitDP ==
    /\ iter \in Inputs
    /\ k = Len(iter)
    /\ ctor = "distinct_permutations"
    /\ dp = distinct_permutations(iter)
    /\ dp_out = <<>>
    /\ dp_last = NoCall
    /\ dp_done = FALSE
    /\ IdleFP /\ IdleRP /\ IdleRange /\ IdleDI /\ IdleMP /\ IdleDD

DPNext ==
    /\ dp_last.tag # "Panic"
    /\ LET r == DistinctPermutations_next(dp)
       IN  /\ dp' = r.self
           /\ dp_last' = r.ret
           /\ dp_out' = Record(dp_out, dp_done, r.ret)
           /\ dp_done' = (dp_done \/ r.ret.tag = "None")
    /\ UNCHANGED <<iter, k, ctor, fpVars, rpVars, n, fnVars, driVars,
                 diVars, mpVars, ddVars>>

SpecDP == InitDP /\ [][DPNext]_vars

(***************************************************************************)
(* Specification of RestrictedPermutations                                 *)
(***************************************************************************)
\* The restrict vectors of kk entries, and of one entry more: next() reads
\* the first kk entries only.
Restricts(kk) ==
    UNION {[1 .. m -> Values] : m \in {kk, kk + 1} \cap (0 .. MaxLen)}

\* restricted_permutations_by_self reads the caller's order, so it is given
\* every input; restricted_permutations hands iter to fast_permutations alone,
\* which sorts it, so it is given one ordering of every multiset.
InitRP ==
    /\ iter \in Inputs
    /\ k \in 0 .. Len(iter)
    /\ \/ /\ ctor = "restricted_permutations_by_self"
          /\ rp = restricted_permutations_by_self(iter, k)
       \/ /\ ctor = "restricted_permutations"
          /\ iter = sort_unstable(iter)
          /\ \E restrict \in Restricts(k) :
                rp = restricted_permutations(iter, k, restrict)
    /\ rp_out = <<>>
    /\ rp_last = NoCall
    /\ rp_done = FALSE
    /\ IdleFP /\ IdleDP /\ IdleRange /\ IdleDI /\ IdleMP /\ IdleDD

RPNext ==
    /\ rp_last.tag # "Panic"
    /\ LET r == RestrictedPermutations_next(rp)
       IN  /\ rp' = r.self
           /\ rp_last' = r.ret
           /\ rp_out' = Record(rp_out, rp_done, r.ret)
           /\ rp_done' = (rp_done \/ r.ret.tag = "None")
    /\ UNCHANGED <<iter, k, ctor, fpVars, dpVars, n, fnVars, driVars,
                 diVars, mpVars, ddVars>>

SpecRP == InitRP /\ [][RPNext]_vars

(***************************************************************************)
(* Specification of DistinctDerangements                                   *)
(***************************************************************************)
\* The items are unsigned; MaxLen is a value that is no position.
UnsignedInputs == UNION {[1 .. m -> 0 .. MaxLen] : m \in 0 .. MaxLen}

InitDD ==
    /\ iter \in UnsignedInputs
    /\ k = Len(iter)
    /\ ctor = "distinct_derangements"
    /\ dd = distinct_derangements(iter)
    /\ dd_out = <<>>
    /\ dd_last = NoCall
    /\ dd_done = FALSE
    /\ IdleFP /\ IdleDP /\ IdleRP /\ IdleRange /\ IdleDI /\ IdleMP

DDNext ==
    /\ dd_last.tag # "Panic"
    /\ LET r == DistinctDerangements_next(dd)
       IN  /\ dd' = r.self
           /\ dd_last' = r.ret
           /\ dd_out' = Record(dd_out, dd_done, r.ret)
           /\ dd_done' = (dd_done \/ r.ret.tag = "None")
    /\ UNCHANGED <<iter, k, ctor, fpVars, dpVars, rpVars, n, fnVars, driVars,
                 diVars, mpVars>>

SpecDD == InitDD /\ [][DDNext]_vars

(***************************************************************************)
(* Specification of the map-restricted permutations                        *)
(***************************************************************************)
Positions == 0 .. (MaxLen - 1)

\* The map that holds, for every key of the relation R, the ascending vector
\* of what R relates it to.
MapOf(R) ==
    [key \in {a[1] : a \in R} |->
        Ascending({a[2] : a \in {b \in R : b[1] = key}})]

\* The maps of at most two (key, item) entries, and those of one key with an
\* empty vector.
RestrictMaps(Keys, Items) ==
    LET entries == Keys \X Items
    IN  {MapOf(R) : R \in {{}} \cup {{a, b} : a, b \in entries}}
            \cup {[key \in {q} |-> <<>>] : q \in Keys}

\* The input and the map of the documented examples.
DocInput == <<0, 1, 2, 3>>

DocRestrict == (0 :> <<0, 1>>) @@ (1 :> <<1, 2>>)

\* Both constructors hand iter to fast_permutations alone, which sorts it, and
\* the items are only compared with each other and with the map's, so they
\* are given one ordering of every multiset whose values are 0..d-1.
InitMap ==
    /\ \/ /\ iter \in Inputs
          /\ iter = sort_unstable(iter)
          /\ \E d \in 0 .. MaxLen : {iter[i] : i \in 1 .. Len(iter)} = 0 .. (d - 1)
          /\ k \in 0 .. Len(iter)
          /\ \/ /\ ctor = "restricted_permutations_by_map_index"
                /\ \E restrict \in RestrictMaps(Positions, Values) :
                      mp = restricted_permutations_by_map_index(iter, k, restrict)
             \/ /\ ctor = "restricted_permutations_by_map_value"
                /\ \E restrict \in RestrictMaps(Values, Positions) :
                      mp = restricted_permutations_by_map_value(iter, k, restrict)
       \/ /\ iter = DocInput
          /\ k = Len(DocInput) - 1
          /\ \/ /\ ctor = "restricted_permutations_by_map_index"
                /\ mp = restricted_permutations_by_map_index(iter, k, DocRestrict)
             \/ /\ ctor = "restricted_permutations_by_map_value"
                /\ mp = restricted_permutations_by_map_value(iter, k, DocRestrict)
    /\ mp_out = <<>>
    /\ mp_last = NoCall
    /\ mp_done = FALSE
    /\ IdleFP /\ IdleDP /\ IdleRP /\ IdleRange /\ IdleDI /\ IdleDD

MapIndexNext ==
    /\ ctor = "restricted_permutations_by_map_index"
    /\ mp_last.tag # "Panic"
    /\ LET r == RestrictedPermutationsByMapIndex_next(mp)
       IN  /\ mp' = r.self
           /\ mp_last' = r.ret
           /\ mp_out' = Record(mp_out, mp_done, r.ret)
           /\ mp_done' = (mp_done \/ r.ret.tag = "None")
    /\ UNCHANGED <<iter, k, ctor, fpVars, dpVars, rpVars, n, fnVars, driVars,
                 diVars, ddVars>>

MapValueNext ==
    /\ ctor = "restricted_permutations_by_map_value"
    /\ mp_last.tag # "Panic"
    /\ LET r == RestrictedPermutationsByMapValue_next(mp)
       IN  /\ mp' = r.self
           /\ mp_last' = r.ret
           /\ mp_out' = Record(mp_out, mp_done, r.ret)
           /\ mp_done' = (mp_done \/ r.ret.tag = "None")
    /\ UNCHANGED <<iter, k, ctor, fpVars, dpVars, rpVars, n, fnVars, driVars,
                 diVars, ddVars>>

NextMap ==
    \/ MapIndexNext
    \/ MapValueNext

SpecMap == InitMap /\ [][NextMap]_vars

(***************************************************************************)
(* Specification of the five permutation iterators run past exhaustion     *)
(***************************************************************************)
\* The caller builds one of the five iterators on iter and k; the filters
\* are given the input itself as the restriction, as a vector or as a map.
SelfIndexMap(it) == [p \in 0 .. (Len(it) - 1) |-> <<it[p + 1]>>]

SelfValueMap(it) ==
    [v \in {it[i] : i \in 1 .. Len(it)} |->
        Ascending({p \in 0 .. (Len(it) - 1) : it[p + 1] = v})]

InitFused ==
    /\ iter \in Inputs
    /\ k \in 0 .. Len(iter)
    /\ \/ /\ ctor = "fast_permutations"
          /\ fp = fast_permutations(iter, k)
          /\ fp_out = <<>> /\ fp_last = NoCall /\ fp_done = FALSE
          /\ IdleDP /\ IdleRP /\ IdleMP
       \/ /\ ctor = "distinct_permutations"
          /\ k = Len(iter)
          /\ dp = distinct_permutations(iter)
          /\ dp_out = <<>> /\ dp_last = NoCall /\ dp_done = FALSE
          /\ IdleFP /\ IdleRP /\ IdleMP
       \/ /\ ctor = "restricted_permutations_by_self"
          /\ rp = restricted_permutations_by_self(iter, k)
          /\ rp_out = <<>> /\ rp_last = NoCall /\ rp_done = FALSE
          /\ IdleFP /\ IdleDP /\ IdleMP
       \/ /\ ctor = "restricted_permutations_by_map_index"
          /\ mp = restricted_permutations_by_map_index(iter, k, SelfIndexMap(iter))
          /\ mp_out = <<>> /\ mp_last = NoCall /\ mp_done = FALSE
          /\ IdleFP /\ IdleDP /\ IdleRP
       \/ /\ ctor = "restricted_permutations_by_map_value"
          /\ mp = restricted_permutations_by_map_value(iter, k, SelfValueMap(iter))
          /\ mp_out = <<>> /\ mp_last = NoCall /\ mp_done = FALSE
          /\ IdleFP /\ IdleDP /\ IdleRP
    /\ IdleRange /\ IdleDI /\ IdleDD

NextFused ==
    \/ ctor = "fast_permutations" /\ FPNext
    \/ ctor = "distinct_permutations" /\ DPNext
    \/ ctor = "restricted_permutations_by_self" /\ RPNext
    \/ MapIndexNext
    \/ MapValueNext

SpecFused == InitFused /\ [][NextFused]_vars

(***************************************************************************)
(* Specification of the four filter layers                                 *)
(***************************************************************************)
\* The caller builds one of the filtering iterators: RestrictedPermutations
\* or one of the two map filters with the input itself as the restriction,
\* or DistinctDerangements.
InitFilter ==
    \/ /\ iter \in Inputs
       /\ k \in 0 .. Len(iter)
       /\ ctor = "restricted_permutations_by_self"
       /\ rp = restricted_permutations_by_self(iter, k)
       /\ rp_out = <<>>
       /\ rp_last = NoCall
       /\ rp_done = FALSE
       /\ IdleFP /\ IdleDP /\ IdleRange /\ IdleDI /\ IdleMP /\ IdleDD
    \/ /\ iter \in Inputs
       /\ k \in 0 .. Len(iter)
       /\ \/ /\ ctor = "restricted_permutations_by_map_index"
             /\ mp = restricted_permutations_by_map_index(iter, k, SelfIndexMap(iter))
          \/ /\ ctor = "restricted_permutations_by_map_value"
             /\ mp = restricted_permutations_by_map_value(iter, k, SelfValueMap(iter))
       /\ mp_out = <<>>
       /\ mp_last = NoCall
       /\ mp_done = FALSE
       /\ IdleFP /\ IdleDP /\ IdleRP /\ IdleRange /\ IdleDI /\ IdleDD
    \/ InitDD

NextFilter ==
    \/ ctor = "restricted_permutations_by_self" /\ RPNext
    \/ MapIndexNext
    \/ MapValueNext
    \/ ctor = "distinct_derangements" /\ DDNext

SpecFilter == InitFilter /\ [][NextFilter]_vars

(***************************************************************************)
(* Specification of the range derangements                                 *)
(***************************************************************************)
\* The functions are called for n = 0..MaxN and for LargeN; the iterator is
\* driven for n = 0..MaxN only, every state carrying all it has emitted.
InitRange ==
    /\ n \in (0 .. MaxN) \cup {LargeN}
    /\ iter = Range(n)
    /\ k = n
    /\ ctor = "derangements_by_range"
    /\ dr_res = NoCall
    /\ drf_res = NoCall
    /\ der_res = NoCall
    /\ dri = derangements_by_range(n)
    /\ dri_out = <<>>
    /\ dri_last = NoCall
    /\ dri_done = FALSE
    /\ IdleFP /\ IdleDP /\ IdleRP /\ IdleDI /\ IdleMP /\ IdleDD

CallDerangementsRange ==
    /\ dr_res = NoCall
    /\ dr_res' = Some(derangements_range(n))
    /\ UNCHANGED <<iter, k, ctor, fpVars, dpVars, rpVars, n, drf_res, der_res, driVars,
                 diVars, mpVars, ddVars>>

CallDerangementsRangeFast ==
    /\ drf_res = NoCall
    /\ drf_res' = Some(derangements_range_fast(n))
    /\ UNCHANGED <<iter, k, ctor, fpVars, dpVars, rpVars, n, dr_res, der_res, driVars,
                 diVars, mpVars, ddVars>>

CallDerangements ==
    /\ der_res = NoCall
    /\ der_res' = Some(derangements(iter, k))
    /\ UNCHANGED <<iter, k, ctor, fpVars, dpVars, rpVars, n, dr_res, drf_res, driVars,
                 diVars, mpVars, ddVars>>

DRINext ==
    /\ n <= MaxN
    /\ dri_last.tag # "Panic"
    /\ LET r == DerangementsRangeIterator_next(dri)
       IN  /\ dri' = r.self
           /\ dri_last' = r.ret
           /\ dri_out' = Record(dri_out, dri_done, r.ret)
           /\ dri_done' = (dri_done \/ r.ret.tag = "None")
    /\ UNCHANGED <<iter, k, ctor, fpVars, dpVars, rpVars, n, fnVars,
                 diVars, mpVars, ddVars>>

NextRange ==
    \/ CallDerangementsRange
    \/ CallDerangementsRangeFast
    \/ CallDerangements
    \/ DRINext

SpecRange == InitRange /\ [][NextRange]_vars

(***************************************************************************)
(* Specification of derangements and derangements_iter                     *)
(***************************************************************************)
\* The items may be signed: a negative one converts to no position.
SignedValues == (-1) .. (MaxLen - 1)

SignedInputs == UNION {[1 .. m -> SignedValues] : m \in 0 .. MaxLen}

InitDer ==
    /\ iter \in SignedInputs
    /\ k \in 0 .. MaxLen
    /\ ctor = "derangements_iter"
    /\ di = derangements_iter(iter, k)
    /\ di_out = <<>>
    /\ di_last = NoCall
    /\ di_done = FALSE
    /\ IdleFP /\ IdleDP /\ IdleRP /\ IdleRange /\ IdleMP /\ IdleDD

DINext ==
    /\ LET r == Derangements_next(di)
       IN  /\ di' = r.self
           /\ di_last' = r.ret
           /\ di_out' = Record(di_out, di_done, r.ret)
           /\ di_done' = (di_done \/ r.ret.tag = "None")
    /\ UNCHANGED <<iter, k, ctor, fpVars, dpVars, rpVars, n, fnVars, driVars,
                 mpVars, ddVars>>

NextDer ==
    \/ CallDerangements
    \/ DINext

SpecDer == InitDer /\ [][NextDer]_vars

(***************************************************************************)
(* Arithmetic and combinatorics the properties are stated with             *)
(***************************************************************************)
RECURSIVE Factorial(_)
Factorial(m) == IF m = 0 THEN 1 ELSE m * Factorial(m - 1)

\* The number of derangements of m elements.
RECURSIVE Subfactorial(_)
Subfactorial(m) ==
    IF m = 0 THEN 1
    ELSE IF m = 1 THEN 0
    ELSE (m - 1) * (Subfactorial(m - 1) + Subfactorial(m - 2))

Elems(s) == {s[i] : i \in 1 .. Len(s)}

\* How many times x occurs in s.
Count(s, x) == Cardinality({i \in 1 .. Len(s) : s[i] = x})

\* The product of multiplicity! over the values in S.
RECURSIVE MultiplicityFactorials(_, _)
MultiplicityFactorials(S, s) ==
    IF S = {} THEN 1
    ELSE LET v == CHOOSE x \in S : TRUE
         IN  Factorial(Count(s, v)) * MultiplicityFactorials(S \ {v}, s)

\* The sequences that hold every element of S once.
RECURSIVE Orderings(_)
Orderings(S) ==
    IF S = {} THEN {<<>>}
    ELSE UNION {{<<x>> \o p : p \in Orderings(S \ {x})} : x \in S}

\* The bijections of 1..m.
Bijections(m) == Orderings(1 .. m)

Rearrangements(s) == {[i \in 1 .. Len(s) |-> s[p[i]]] : p \in Bijections(Len(s))}

\* Two sequences hold the same elements the same number of times.
SameBag(s, t) ==
    /\ Len(s) = Len(t)
    /\ \A x \in Elems(s) \cup Elems(t) : Count(s, x) = Count(t, x)

NoRepeats(s) == Cardinality(Elems(s)) = Len(s)

\* The permutations of 0..m-1 without a fixed point.
MathDerangements(m) ==
    {[i \in 1 .. m |-> p[i] - 1] : p \in {q \in Bijections(m) : \A i \in 1 .. m : q[i] # i}}

(***************************************************************************)
(* Properties of FastPermutations (SpecFP)                                 *)
(***************************************************************************)
FPFullRun == fp_done /\ k = Len(iter)

\* C1 as stated: with k = n, fast_permutations emits each distinct
\* permutation of the multiset exactly once, n!/prod(multiplicity!) in all.
C1_EachDistinctPermutationOnce ==
    FPFullRun =>
        /\ Len(fp_out) * MultiplicityFactorials(Elems(iter), iter)
               = Factorial(Len(iter))
        /\ Elems(fp_out) = Rearrangements(iter)
        /\ NoRepeats(fp_out)

\* C1 amended: with k = n, fast_permutations emits n! arrangements, and each
\* distinct permutation of the multiset exactly prod(multiplicity!) times,
\* which is once when the values are all distinct.
C1_EachPermutationMultiplicityTimes ==
    FPFullRun =>
        /\ Len(fp_out) = Factorial(Len(iter))
        /\ Elems(fp_out) = Rearrangements(iter)
        /\ \A a \in Rearrangements(iter) :
               Count(fp_out, a) = MultiplicityFactorials(Elems(iter), iter)
        /\ (Cardinality(Elems(iter)) = Len(iter) => NoRepeats(fp_out))

C1_Witness ==
    /\ FPFullRun
    /\ Len(iter) = MaxLen
    /\ Cardinality(Elems(iter)) < Len(iter)
    /\ ~NoRepeats(fp_out)

\* C2: with k = n >= 1, fast_permutations emits n! arrangements, one per
\* permutation of the element positions, each a rearrangement of the input;
\* for the values 0..n-1 the emitted set is the set of all n! permutations,
\* and [0,1,1] gives [0,1,1],[1,0,1],[0,1,1],[1,0,1],[1,1,0],[1,1,0].
C2_OnePerPositionPermutation ==
    (k = Len(iter) /\ Len(iter) >= 1) =>
        LET PositionPermutations(a) ==
                {p \in Bijections(Len(iter)) :
                    a = [i \in 1 .. Len(iter) |-> iter[p[i]]]}
        IN  /\ \A i \in 1 .. Len(fp_out) :
                   /\ fp_out[i] \in Rearrangements(iter)
                   /\ Count(fp_out, fp_out[i])
                          <= Cardinality(PositionPermutations(fp_out[i]))
            /\ fp_done =>
                /\ Len(fp_out) = Factorial(Len(iter))
                /\ \A a \in Rearrangements(iter) :
                       Count(fp_out, a) = Cardinality(PositionPermutations(a))
                /\ (Elems(iter) = 0 .. Len(iter) - 1 =>
                       /\ Elems(fp_out) = Rearrangements(Range(Len(iter)))
                       /\ Cardinality(Elems(fp_out)) = Factorial(Len(iter)))
                /\ (sort_unstable(iter) = <<0, 1, 1>> =>
                       fp_out = << <<0, 1, 1>>, <<1, 0, 1>>, <<0, 1, 1>>,
                                   <<1, 0, 1>>, <<1, 1, 0>>, <<1, 1, 0>> >>)

C2_Witness ==
    /\ FPFullRun
    /\ iter = <<1, 0, 1>>
    /\ Len(fp_out) = 6

\* C3: with k < n every emitted arrangement has k elements, and what is
\* emitted is, with multiplicity, the k-prefixes of what fast_permutations
\* emits for k = n; [0,1,1] with k = 2 gives [0,1],[1,0],[0,1],[1,0],[1,1],[1,1].
C3_TruncationKeepsMultiplicity ==
    /\ \A i \in 1 .. Len(fp_out) : Len(fp_out[i]) = k
    /\ (fp_done /\ k < Len(iter)) =>
        LET full == FastPermutations_collect(fast_permutations(iter, Len(iter)))
            prefixes == [i \in 1 .. Len(full) |-> SubSeq(full[i], 1, k)]
        IN  /\ SameBag(fp_out, prefixes)
            /\ Len(fp_out) = Factorial(Len(iter))
            /\ ((sort_unstable(iter) = <<0, 1, 1>> /\ k = 2) =>
                   fp_out = << <<0, 1>>, <<1, 0>>, <<0, 1>>,
                               <<1, 0>>, <<1, 1>>, <<1, 1>> >>)

C3_Witness ==
    /\ fp_done
    /\ iter = <<1, 1, 0>>
    /\ k = 2
    /\ Count(fp_out, <<1, 1>>) = 2

(***************************************************************************)
(* Properties of DistinctPermutations (SpecDP)                             *)
(***************************************************************************)
\* C4: distinct_permutations emits n!/prod(multiplicity!) arrangements, each
\* a rearrangement of the input and no two equal; [0,1,1] gives
\* [1,1,0],[0,1,1],[1,0,1] and [0,1,2] gives all six permutations.
C4_DistinctPermutationsOnce ==
    /\ \A i \in 1 .. Len(dp_out) : dp_out[i] \in Rearrangements(iter)
    /\ NoRepeats(dp_out)
    /\ dp_done =>
        /\ Len(dp_out) * MultiplicityFactorials(Elems(iter), iter)
               = Factorial(Len(iter))
        /\ (sort_unstable(iter) = <<0, 1, 1>> =>
               dp_out = << <<1, 1, 0>>, <<0, 1, 1>>, <<1, 0, 1>> >>)
        /\ (sort_unstable(iter) = <<0, 1, 2>> =>
               /\ Len(dp_out) = 6
               /\ Elems(dp_out) = Rearrangements(iter))

C4_Witness ==
    /\ dp_done
    /\ iter = <<1, 0, 1>>
    /\ Len(dp_out) = 3

(***************************************************************************)
(* Properties of the range derangements (SpecRange)                        *)
(***************************************************************************)
\* C5: derangements_range(n) returns exactly the permutations of 0..n-1
\* without a fixed point, each once, so D(n) of them (1, 0, 1, 2, 9, ..),
\* and as a set it equals derangements(0..n, n).
C5_RangeIsTheDerangements ==
    dr_res.tag = "Some" =>
        /\ Elems(dr_res.val) = MathDerangements(n)
        /\ NoRepeats(dr_res.val)
        /\ Len(dr_res.val) = Subfactorial(n)
        /\ (n <= 4 => Len(dr_res.val) = <<1, 0, 1, 2, 9>>[n + 1])
        /\ (n = 8 => Len(dr_res.val) = 14833)
        /\ (der_res.tag = "Some" => Elems(dr_res.val) = Elems(der_res.val))

C5_Witness ==
    /\ dr_res.tag = "Some"
    /\ der_res.tag = "Some"
    /\ n = LargeN
    /\ Len(der_res.val) = 14833

\* C6: derangements_by_range(n), iterated until its first None, yields the
\* sequence derangements_range(n): the same arrangements in the same order.
C6_IteratorYieldsRangeSequence ==
    dri_done => dri_out = derangements_range(n)

C6_Witness ==
    /\ dri_done
    /\ n = 4
    /\ Len(dri_out) = 9

\* C7: derangements_range_fast(n) returns the same sequence, in the same
\* order, as derangements_range(n); for n = 3 it is [2,0,1],[1,2,0].
C7_FastEqualsRange ==
    drf_res.tag = "Some" =>
        /\ drf_res.val = derangements_range(n)
        /\ (dr_res.tag = "Some" => drf_res.val = dr_res.val)
        /\ (n = 3 => drf_res.val = << <<2, 0, 1>>, <<1, 2, 0>> >>)
        /\ (n = 8 => Len(drf_res.val) = 14833)

C7_Witness ==
    /\ drf_res.tag = "Some"
    /\ dr_res.tag = "Some"
    /\ n = LargeN
    /\ Len(drf_res.val) = 14833

(***************************************************************************)
(* Properties of RestrictedPermutations (SpecRP)                           *)
(***************************************************************************)
\* No position of x holds the value restrict has there.
AvoidsRestrict(x, restrict) == \A i \in 1 .. Len(x) : x[i] # restrict[i]

\* What fast_permutations(iter, k) emits, with the arrangements that meet
\* restrict dropped and nothing else changed.
FilteredGenerator(restrict) ==
    LET all == FastPermutations_collect(fast_permutations(iter, k))
        Keep(x) == AvoidsRestrict(x, restrict)
    IN  SelectSeq(all, Keep)

\* C8: restricted_permutations(iter, k, restrict) with len(restrict) >= k
\* emits, in unchanged order and multiplicity, the arrangements of
\* fast_permutations(iter, k) in which no position i < k holds restrict[i].
C8_RestrictedIsFilteredGenerator ==
    (ctor = "restricted_permutations" /\ rp_done) =>
        rp_out = FilteredGenerator(rp.restrict)

C8_Witness ==
    /\ ctor = "restricted_permutations"
    /\ rp_done
    /\ Len(iter) = MaxLen
    /\ k = 2
    /\ Len(rp.restrict) > k
    /\ Len(rp_out) > 0
    /\ Len(rp_out) < Factorial(Len(iter))

\* C9: restricted_permutations_by_self(iter, k) drops an arrangement exactly
\* when some position i < k holds the value the input had at i in the
\* caller's order; its output is that of restricted_permutations(iter, k,
\* iter), and [1,0,2] gives [0,2,1],[2,1,0] for k = 3 and [0,1],[0,2],[2,1]
\* for k = 2.
C9_BySelfRestrictsToCallerOrder ==
    (ctor = "restricted_permutations_by_self" /\ rp_done) =>
        /\ rp_out = FilteredGenerator(iter)
        /\ rp_out = RestrictedPermutations_collect(
                        restricted_permutations(iter, k, iter))
        /\ ((iter = <<1, 0, 2>> /\ k = 3) =>
               rp_out = << <<0, 2, 1>>, <<2, 1, 0>> >>)
        /\ ((iter = <<1, 0, 2>> /\ k = 2) =>
               rp_out = << <<0, 1>>, <<0, 2>>, <<2, 1>> >>)

C9_Witness ==
    /\ ctor = "restricted_permutations_by_self"
    /\ rp_done
    /\ iter = <<1, 0, 2>>
    /\ k = 2
    /\ Len(rp_out) = 3

\* C10: restricted_permutations_by_self on 0,1,..,n-1 with k = n emits the
\* derangements of n elements, each once, so D(n) of them (1, 0, 1, 2, 9),
\* and holds the same arrangements as derangements(0..n, n).
C10_BySelfOnRangeIsDerangements ==
    (ctor = "restricted_permutations_by_self" /\ rp_done
        /\ iter = Range(Len(iter)) /\ k = Len(iter)) =>
        /\ Elems(rp_out) = MathDerangements(Len(iter))
        /\ NoRepeats(rp_out)
        /\ Len(rp_out) = Subfactorial(Len(iter))
        /\ (Len(iter) <= 4 => Len(rp_out) = <<1, 0, 1, 2, 9>>[Len(iter) + 1])
        /\ SameBag(rp_out, derangements(iter, k))

C10_Witness ==
    /\ ctor = "restricted_permutations_by_self"
    /\ rp_done
    /\ iter = Range(MaxLen)
    /\ k = MaxLen
    /\ Len(rp_out) = Subfactorial(MaxLen)

(***************************************************************************)
(* Properties of derangements and derangements_iter (SpecDer)              *)
(***************************************************************************)
\* The ways to choose kk positions of 1..m in order.
Injections(kk, m) ==
    {p \in [1 .. kk -> 1 .. m] : \A a, b \in 1 .. kk : a # b => p[a] # p[b]}

\* No position holds its own 0-based index; a negative value is no index.
NoValueAtItsIndex(x) == \A i \in 1 .. Len(x) : x[i] # i - 1

\* out is the k-permutations by position without a value at its index: one
\* per choice of positions, in the order permutations(k) gives them.
DerangementsOfInput(out) ==
    LET chosen == Injections(k, Len(iter))
        Arrangement(p) == [b \in 1 .. k |-> iter[p[b]]]
        kept == {p \in chosen : NoValueAtItsIndex(Arrangement(p))}
    IN  /\ out = SelectSeq(permutations(iter, k), NoValueAtItsIndex)
        /\ Len(out) = Cardinality(kept)
        /\ \A p \in kept :
              Count(out, Arrangement(p)) =
                  Cardinality({q \in kept : Arrangement(q) = Arrangement(p)})

\* C11: derangements(iter, k) and derangements_iter(iter, k) return exactly
\* the k-permutations of the input, chosen by position and in the order of
\* the k-permutation enumeration, in which no position i holds the value i;
\* a value that converts to no position (a negative one) excludes nothing:
\* [0,1,-1] gives [1,0,-1],[1,-1,0],[-1,0,1] and [0,1,1] gives [1,0,1] twice.
C11_DerangementsFilterByIndex ==
    /\ der_res.tag = "Some" =>
          /\ DerangementsOfInput(der_res.val)
          /\ ((iter = <<0, 1, -1>> /\ k = 3) =>
                 der_res.val = << <<1, 0, -1>>, <<1, -1, 0>>, <<-1, 0, 1>> >>)
          /\ ((iter = <<0, 1, 1>> /\ k = 3) =>
                 der_res.val = << <<1, 0, 1>>, <<1, 0, 1>> >>)
    /\ di_done =>
          /\ DerangementsOfInput(di_out)
          /\ ((iter = <<0, 1, -1>> /\ k = 3) =>
                 di_out = << <<1, 0, -1>>, <<1, -1, 0>>, <<-1, 0, 1>> >>)
          /\ ((iter = <<0, 1, 1>> /\ k = 3) =>
                 di_out = << <<1, 0, 1>>, <<1, 0, 1>> >>)

C11_Witness ==
    /\ iter = <<0, 1, -1>>
    /\ k = 3
    /\ di_done
    /\ der_res.tag = "Some"
    /\ der_res.val = di_out
    /\ Len(di_out) = 3

(***************************************************************************)
(* Properties of the map-restricted permutations (SpecMap)                 *)
(***************************************************************************)
\* The arrangements of fast_permutations(iter, k), in order, that Keep keeps.
GeneratorKeeping(Keep(_)) ==
    SelectSeq(FastPermutations_collect(fast_permutations(iter, k)), Keep)

\* No position of x is a key of R whose vector holds the value there.
AllowedByIndexMap(R, x) ==
    \A i \in 1 .. Len(x) :
        (i - 1) \notin DOMAIN R \/ x[i] \notin Elems(R[i - 1])

\* C12: restricted_permutations_by_map_index(iter, k, R) emits exactly the
\* arrangements of fast_permutations(iter, k), in the same order, in which
\* no position i is a key of R with the value at i contained in R[i];
\* positions that are no keys are unrestricted, and [0,1,2,3] with k = 3 and
\* R = {0:[0,1], 1:[1,2]} gives the six documented arrangements.
C12_MapIndexIsFilteredGenerator ==
    (ctor = "restricted_permutations_by_map_index" /\ mp_done) =>
        LET Keep(x) == AllowedByIndexMap(mp.restrict, x)
        IN  /\ mp_out = GeneratorKeeping(Keep)
            /\ ((iter = DocInput /\ k = 3 /\ mp.restrict = DocRestrict) =>
                   /\ Len(mp_out) = 6
                   /\ Elems(mp_out) = {<<2, 0, 1>>, <<2, 0, 3>>, <<2, 3, 0>>,
                                       <<2, 3, 1>>, <<3, 0, 1>>, <<3, 0, 2>>})

C12_Witness ==
    /\ ctor = "restricted_permutations_by_map_index"
    /\ mp_done
    /\ iter = DocInput
    /\ k = 3
    /\ mp.restrict = DocRestrict
    /\ Len(mp_out) = 6

\* No position of x holds a value that is a key of R whose vector holds
\* that position.
AllowedByValueMap(R, x) ==
    \A i \in 1 .. Len(x) :
        x[i] \notin DOMAIN R \/ (i - 1) \notin Elems(R[x[i]])

Transpose(M) ==
    [b \in UNION {Elems(M[a]) : a \in DOMAIN M} |->
        Ascending({a \in DOMAIN M : b \in Elems(M[a])})]

\* C14: for the same input and k, a value map and the index map that is its
\* transpose (p in Rv[v] iff v in Ri[p]) give identical results, here even
\* in the same order, hence identical result sets.
C14_TransposedMapsAgree ==
    mp_done =>
        /\ ctor = "restricted_permutations_by_map_index" =>
              LET other == RestrictedPermutationsByMapValue_collect(
                               restricted_permutations_by_map_value(
                                   iter, k, Transpose(mp.restrict)))
              IN  mp_out = other /\ Elems(mp_out) = Elems(other)
        /\ ctor = "restricted_permutations_by_map_value" =>
              LET other == RestrictedPermutationsByMapIndex_collect(
                               restricted_permutations_by_map_index(
                                   iter, k, Transpose(mp.restrict)))
              IN  mp_out = other /\ Elems(mp_out) = Elems(other)

C14_Witness ==
    /\ ctor = "restricted_permutations_by_map_value"
    /\ mp_done
    /\ iter = <<0, 1, 2>>
    /\ k = 3
    /\ mp.restrict = (0 :> <<0, 1>>)
    /\ Transpose(mp.restrict) = (0 :> <<0>>) @@ (1 :> <<0>>)
    /\ mp_out = << <<2, 1, 0>>, <<1, 2, 0>> >>

(***************************************************************************)
(* DistinctPermutations against FastPermutations (SpecDP)                  *)
(***************************************************************************)
\* What fast_permutations(iter, k = len(iter)) emits until its first None.
FullGenerator == FastPermutations_collect(fast_permutations(iter, Len(iter)))

\* C15 as stated: distinct_permutations(M) produces the same multiset of
\* results, the same arrangements with the same multiplicities, as
\* fast_permutations(M, k = len(M)).
C15_SameMultisetAsGenerator ==
    dp_done => SameBag(dp_out, FullGenerator)

\* C15 amended: distinct_permutations(M) produces the same set of
\* arrangements as fast_permutations(M, k = len(M)), each once where the
\* generator emits it prod(multiplicity!) times, so that the multisets of
\* results are the same exactly when the values of M are all distinct.
C15_SameArrangementsEachOnce ==
    dp_done =>
        /\ Elems(dp_out) = Elems(FullGenerator)
        /\ \A a \in Elems(FullGenerator) :
              /\ Count(dp_out, a) = 1
              /\ Count(FullGenerator, a) = MultiplicityFactorials(Elems(iter), iter)
        /\ (SameBag(dp_out, FullGenerator) <=> Cardinality(Elems(iter)) = Len(iter))

C15_Witness ==
    /\ dp_done
    /\ iter = <<0, 1, 1>>
    /\ Len(dp_out) = 3
    /\ Len(FullGenerator) = 6
    /\ Elems(dp_out) = Elems(FullGenerator)

(***************************************************************************)
(* Properties of DistinctDerangements (SpecDD)                             *)
(***************************************************************************)
\* What restricted_permutations_by_self(iter, k = len(iter)) emits.
BySelfFull ==
    RestrictedPermutations_collect(
        restricted_permutations_by_self(iter, Len(iter)))

\* C16 as stated: for every input sequence M, in any order and with
\* duplicates, distinct_derangements(M) produces the same multiset of
\* results as restricted_permutations_by_self(M, k = len(M)).
C16_SameMultisetAsBySelf ==
    dd_done => SameBag(dd_out, BySelfFull)

\* C16 amended: distinct_derangements(M) emits, each once, the distinct
\* permutations of M in which no position i holds the value i, whatever the
\* order of M; that is the multiset of results of
\* restricted_permutations_by_self(M, k = len(M)) when M is 0,1,..,n-1.
C16_DistinctIndexDerangements ==
    dd_done =>
        /\ NoRepeats(dd_out)
        /\ Elems(dd_out) = {a \in Rearrangements(iter) : NoValueAtItsIndex(a)}
        /\ (iter = Range(Len(iter)) => SameBag(dd_out, BySelfFull))

C16_Witness ==
    /\ dd_done
    /\ iter = <<1, 0, 2>>
    /\ dd_out = << <<2, 0, 1>>, <<1, 2, 0>> >>
    /\ BySelfFull = << <<0, 2, 1>>, <<2, 1, 0>> >>

(***************************************************************************)
(* Exhaustion of the permutation iterators (SpecFused)                     *)
(***************************************************************************)
\* Once an iterator has returned None, the call of this step returns None.
StaysExhausted ==
    /\ fp_done => fp_last'.tag = "None"
    /\ dp_done => dp_last'.tag = "None"
    /\ rp_done => rp_last'.tag = "None"
    /\ mp_done => mp_last'.tag = "None"

\* C17 as stated: once next() of any of the five iterators has returned
\* None every later call returns None, and a call that returns None leaves
\* buffer, values, index and the start flag unchanged.
C17_NoneLeavesStateUnchanged ==
    [][/\ StaysExhausted
       /\ fp_last'.tag = "None" => fp' = fp
       /\ dp_last'.tag = "None" => dp' = dp
       /\ rp_last'.tag = "None" => rp'.permutations = rp.permutations
       /\ mp_last'.tag = "None" => mp'.permutations = mp.permutations]_vars

\* C17 amended: once next() of any of the five iterators has returned None
\* every later call returns None; a call of FastPermutations or
\* DistinctPermutations that returns None leaves buffer, values, index and
\* the start flag unchanged, and so does a call of a filter made after its
\* first None (the first None of a filter may come after shifts past
\* rejected arrangements).
C17_FusedExhaustion ==
    [][/\ StaysExhausted
       /\ fp_last'.tag = "None" => fp' = fp
       /\ dp_last'.tag = "None" => dp' = dp
       /\ rp_done => rp'.permutations = rp.permutations
       /\ mp_done => mp'.permutations = mp.permutations]_vars

\* A filter whose first None came in a call that shifted the generator past
\* a rejected arrangement.
C17_Witness ==
    /\ ctor = "restricted_permutations_by_self"
    /\ iter = <<1, 0>>
    /\ k = 2
    /\ rp_done
    /\ rp_last.tag = "None"
    /\ rp_out = << <<0, 1>> >>
    /\ rp.permutations.values = <<1, 0>>
    /\ ~rp.permutations.start

(***************************************************************************)
(* Boundary cases of FastPermutations (SpecFP)                             *)
(***************************************************************************)
\* C18: for a multiset of any size, fast_permutations(M, 0) emits exactly
\* one arrangement, the empty sequence, and the very next call returns None.
C18_KZeroEmitsOneEmpty ==
    k = 0 =>
        /\ Len(fp_out) <= 1
        /\ fp_last.tag = "Some" => fp_last.val = <<>>
        /\ fp_done => fp_out = << <<>> >>

\* C19: on the empty multiset with k = 0, fast_permutations emits exactly
\* one empty arrangement and then None, without performing a shift or
\* reading a buffer element: buffer, values and index never change, and the
\* exhaustion test is settled by the buffer's length alone.
C19_EmptyInputEmitsOneEmpty ==
    iter = <<>> =>
        /\ fp.buffer = <<>> /\ fp.values = <<>> /\ fp.index = 0
        /\ Len(fp.buffer) <= fp.index + 1
        /\ fp_last \in {NoCall, Some(<<>>), None}
        /\ fp_out = (IF fp_last = NoCall THEN <<>> ELSE << <<>> >>)
        /\ fp_done <=> fp_last = None

C19_Witness ==
    /\ iter = <<>>
    /\ k = 0
    /\ fp_done
    /\ fp_last = None
    /\ fp_out = << <<>> >>

(***************************************************************************)
(* Base cases of the range derangements (SpecRange)                        *)
(***************************************************************************)
\* C20: for n = 0 derangements_range and derangements_range_fast return
\* exactly one derangement, the empty one, and derangements_by_range
\* returns Some([]) once and None on every later call; for n = 1 the two
\* functions return nothing and the iterator returns None on every call.
C20_RangeBaseCases ==
    /\ n = 0 =>
          /\ dr_res.tag = "Some" => dr_res.val = << <<>> >>
          /\ drf_res.tag = "Some" => drf_res.val = << <<>> >>
          /\ dri_last \in {NoCall, Some(<<>>), None}
          /\ dri_out = (IF dri_last = NoCall THEN <<>> ELSE << <<>> >>)
          /\ dri_done <=> dri_last = None
    /\ n = 1 =>
          /\ dr_res.tag = "Some" => dr_res.val = <<>>
          /\ drf_res.tag = "Some" => drf_res.val = <<>>
          /\ dri_last \in {NoCall, None}
          /\ dri_out = <<>>
          /\ dri_done <=> dri_last = None

\* Both functions have been called and the iterator run to None for n = 0.
C20_Witness ==
    /\ n = 0
    /\ dr_res = Some(<< <<>> >>)
    /\ drf_res = Some(<< <<>> >>)
    /\ dri_done
    /\ dri_out = << <<>> >>

(***************************************************************************)
(* FastPermutations with k beyond the input (SpecFPAnyK)                   *)
(***************************************************************************)
\* C22: fast_permutations(M, k) with k > len(M) is built like any other,
\* nothing checking k, and the first next() faults on the out-of-range
\* prefix: it returns neither an arrangement nor None.
C22_OversizedKFaultsOnFirstCall ==
    k > Len(iter) =>
        /\ fp.k = k
        /\ fp.values = sort_unstable(iter)
        /\ fp.buffer = Reverse(Range(Len(iter)))
        /\ fp_last \in {NoCall, Panic}
        /\ fp_last = NoCall <=> fp.start
        /\ fp_out = <<>>
        /\ ~fp_done

C22_Witness ==
    /\ Len(iter) = 2
    /\ k = 3
    /\ fp_last = Panic
    /\ fp_out = <<>>

(***************************************************************************)
(* The generators step by step (SpecFused)                                 *)
(***************************************************************************)
\* The step is a call of FastPermutations::next that shifts: neither the
\* first call nor an exhausted one.
FPShiftCall == ~fp.start /\ fp_last'.tag = "Some"

DPShiftCall == ~dp.start /\ dp_last'.tag = "Some"

\* C23: in every state of FastPermutations and DistinctPermutations the
\* cursor satisfies 0 <= index <= length; a call that shifts sets it to 0 if
\* buffer[0] < buffer[1] in the shifted buffer and to the previous cursor
\* plus 1 otherwise, and no other call changes it.
C23_IndexFromLocalComparison ==
    [][/\ fp.index \in 0 .. Len(fp.buffer)
       /\ fp'.index \in 0 .. Len(fp'.buffer)
       /\ dp.index \in 0 .. Len(dp.buffer)
       /\ dp'.index \in 0 .. Len(dp'.buffer)
       /\ fp'.index = (IF ~FPShiftCall THEN fp.index
                       ELSE IF fp'.buffer[1] < fp'.buffer[2] THEN 0
                       ELSE fp.index + 1)
       /\ dp'.index = (IF ~DPShiftCall THEN dp.index
                       ELSE IF dp'.buffer[1] < dp'.buffer[2] THEN 0
                       ELSE dp.index + 1)]_vars

\* DistinctPermutations after a shift that reset the cursor, which was 1 at
\* construction.
C23_Witness ==
    /\ ctor = "distinct_permutations"
    /\ Len(dp.buffer) = 3
    /\ ~dp.start
    /\ dp_last.tag = "Some"
    /\ dp.buffer[1] < dp.buffer[2]
    /\ dp.index = 0

\* The fields of a FastPermutations g built on the input it: values is a
\* rearrangement of it, buffer a permutation of 0..n-1, and values[i] is
\* element n-1-buffer[i] of the ascending-sorted input.
InLockstep(g, it) ==
    LET len == Len(it)
        sorted == sort_unstable(it)
    IN  /\ Len(g.values) = len /\ Len(g.buffer) = len
        /\ SameBag(g.values, it)
        /\ Elems(g.buffer) = 0 .. (len - 1)
        /\ \A i \in 1 .. len : g.values[i] = sorted[(len - 1 - g.buffer[i]) + 1]

\* C24: after any number of next() calls the values of FastPermutations
\* and the buffer of DistinctPermutations are rearrangements of the input
\* multiset; the position buffer of FastPermutations (also of the one inside
\* a filter) is a permutation of 0..n-1 moving in lockstep with the values:
\* values[i] is element n-1-buffer[i] of the ascending-sorted input.
C24_BuffersRearrangeInput ==
    /\ ctor = "fast_permutations" => InLockstep(fp, iter)
    /\ ctor = "distinct_permutations" => SameBag(dp.buffer, iter)
    /\ ctor = "restricted_permutations_by_self" => InLockstep(rp.permutations, iter)
    /\ ctor \in {"restricted_permutations_by_map_index",
                 "restricted_permutations_by_map_value"} =>
          InLockstep(mp.permutations, iter)

C24_Witness ==
    /\ ctor = "fast_permutations"
    /\ iter = <<2, 0, 1>>
    /\ fp.buffer = <<1, 0, 2>>
    /\ fp.values = <<1, 2, 0>>
    /\ Len(fp_out) >= 3

\* after is before with one prefix shift applied at the shift index that
\* cursor picks in the buffer buf: the element there is moved to the front,
\* the elements before it move one place right, the rest stays.
OnePrefixShift(before, after, buf, cursor) ==
    LET len == Len(buf)
        shift_index == IF cursor + 2 < len /\ buf[cursor + 3] <= buf[cursor + 1]
                       THEN cursor + 2
                       ELSE cursor + 1
    IN  /\ shift_index < len
        /\ Len(after) = Len(before)
        /\ after[1] = before[shift_index + 1]
        /\ \A j \in 0 .. (shift_index - 1) : after[j + 2] = before[j + 1]
        /\ \A j \in (shift_index + 1) .. (len - 1) : after[j + 1] = before[j + 1]

\* C25: a next() call of FastPermutations or DistinctPermutations that is
\* neither the first call nor an exhausted one performs exactly one prefix
\* shift, at index + 2 if index + 2 < length and buffer[index + 2] <=
\* buffer[index] and at index + 1 otherwise (FastPermutations shifts its
\* values alike); the first and the exhausted calls shift nothing.
C25_ExactlyOnePrefixShift ==
    [][/\ IF FPShiftCall
          THEN /\ OnePrefixShift(fp.buffer, fp'.buffer, fp.buffer, fp.index)
               /\ OnePrefixShift(fp.values, fp'.values, fp.buffer, fp.index)
          ELSE fp'.buffer = fp.buffer /\ fp'.values = fp.values
       /\ IF DPShiftCall
          THEN OnePrefixShift(dp.buffer, dp'.buffer, dp.buffer, dp.index)
          ELSE dp'.buffer = dp.buffer]_vars

\* FastPermutations after its first shift, made at index + 1 = 2.
C25_Witness ==
    /\ ctor = "fast_permutations"
    /\ iter = <<0, 1, 2>>
    /\ Len(fp_out) = 2
    /\ fp.buffer = <<0, 2, 1>>
    /\ fp.values = <<2, 0, 1>>

(***************************************************************************)
(* The first arrangement of FastPermutations (SpecFP)                      *)
(***************************************************************************)
\* C26 as stated: the first arrangement emitted by fast_permutations(M, k)
\* is the first k elements of M sorted in descending order, emitted by the
\* first next() call before any shift.
C26_FirstIsDescendingPrefix ==
    fp_out # <<>> => fp_out[1] = SubSeq(sort_unstable_desc(iter), 1, k)

\* C26 amended: the first arrangement emitted by fast_permutations(M, k) is
\* the first k elements of M sorted in ascending order; the first next()
\* call emits it before any shift is performed, and the start flag lets
\* that happen exactly once (with all values distinct and k = n no later
\* call emits it again).
C26_FirstIsAscendingPrefix ==
    /\ fp_out # <<>> => fp_out[1] = SubSeq(sort_unstable(iter), 1, k)
    /\ fp.start <=> fp_last = NoCall
    /\ fp.start => fp_out = <<>>
    /\ (Len(fp_out) = 1 /\ fp_last.tag = "Some") =>
          /\ fp.values = sort_unstable(iter)
          /\ fp.buffer = Reverse(Range(Len(iter)))
          /\ fp.index = saturating_sub(Len(iter), 2)
    /\ (Cardinality(Elems(iter)) = Len(iter) /\ k = Len(iter) /\ fp_out # <<>>) =>
          Count(fp_out, fp_out[1]) = 1

C26_Witness ==
    /\ iter = <<2, 0, 1>>
    /\ k = 2
    /\ fp_last = Some(<<0, 1>>)
    /\ fp_out = << <<0, 1>> >>
    /\ ~fp.start

(***************************************************************************)
(* Truncation in FastPermutations (SpecFP)                                 *)
(***************************************************************************)
\* C27: truncation is only a view.  For a fixed input, the instance built
\* with any other k2 in 0..n starts in the same internal state (position
\* buffer, values, index, start) as the running instance, every next() call
\* takes both to the same internal state and returns None for both or for
\* neither, and each emitted arrangement is the first k elements of the
\* values after the call.
C27_TruncationIsOnlyAView ==
    [][\A k2 \in 0 .. Len(iter) :
         LET twin == [fp EXCEPT !.k = k2]
             r    == FastPermutations_next(twin)
         IN  /\ fp_last = NoCall => twin = fast_permutations(iter, k2)
             /\ r.self = [fp' EXCEPT !.k = k2]
             /\ r.ret.tag = fp_last'.tag
             /\ r.ret.tag = "Some" => r.ret.val = SubSeq(fp'.values, 1, k2)
             /\ fp_last'.tag = "Some" => fp_last'.val = SubSeq(fp'.values, 1, k)]_vars

C27_Witness ==
    /\ iter = <<0, 1, 2>>
    /\ k = 1
    /\ fp_out = << <<0>>, <<2>>, <<0>>, <<1>> >>
    /\ fp.values = <<1, 0, 2>>
    /\ fp_last = Some(<<1>>)

(***************************************************************************)
(* The filter loops (SpecFilter)                                           *)
(***************************************************************************)
\* A call of a filter over the candidates its generator has left: it
\* returns the first one that Accepts keeps and leaves the generator with
\* what follows it, or, when none is kept, returns None and leaves the
\* generator with nothing.
FilterCall(remaining, left, ret, Accepts(_)) ==
    LET kept == {j \in 1 .. Len(remaining) : Accepts(remaining[j])}
    IN  IF kept = {}
        THEN ret = None /\ left = <<>>
        ELSE LET first == CHOOSE j \in kept : \A q \in kept : j <= q
             IN  /\ ret = Some(remaining[first])
                 /\ left = SubSeq(remaining, first + 1, Len(remaining))

ChildBySplit(lag, m, split) ==
    [i \in 1 .. m |-> IF i = m THEN lag[split + 1]
                      ELSE IF i = split + 1 THEN m - 1
                      ELSE lag[i]]

\* The child of lag (size m - 2) for kk: the values >= kk raised by one,
\* m - 1 inserted at position kk, kk at the end.
ChildByInsertion(lag, m, kk) ==
    LET raised == [i \in 1 .. Len(lag) |->
                      IF lag[i] >= kk THEN lag[i] + 1 ELSE lag[i]]
    IN  SubSeq(raised, 1, kk) \o <<m - 1>>
            \o SubSeq(raised, kk + 1, Len(raised)) \o <<kk>>

\* C29: derangements_range(n) for n >= 2 lists, in this order: for each
\* derangement of size n - 1 (in its own order) and each split = 0..n-2
\* ascending, the child with n - 1 at split and the displaced element
\* appended; then for each derangement of size n - 2 the child appending
\* (n - 1, n - 2), followed by the children for k = n-3 down to 0 (values
\* >= k raised by one, n - 1 inserted at position k, k appended).  For n = 4
\* that is the nine derangements in the stated order.
C29_RangeOrder ==
    (dr_res.tag = "Some" /\ n >= 2) =>
        LET out  == dr_res.val
            lag1 == derangements_range(n - 1)
            lag2 == derangements_range(n - 2)
            per  == n - 1
            from == Len(lag1) * per
        IN  /\ Len(out) = from + Len(lag2) * per
            /\ \A a \in 1 .. Len(lag1) : \A split \in 0 .. (n - 2) :
                  out[(a - 1) * per + split + 1] = ChildBySplit(lag1[a], n, split)
            /\ \A b \in 1 .. Len(lag2) :
                  LET base == from + (b - 1) * per
                  IN  /\ out[base + 1] = lag2[b] \o <<n - 1, n - 2>>
                      /\ \A kk \in 0 .. (n - 3) :
                            out[base + 1 + (n - 2 - kk)] =
                                ChildByInsertion(lag2[b], n, kk)
            /\ n = 4 =>
                  out = << <<3, 0, 1, 2>>, <<2, 3, 1, 0>>, <<2, 0, 3, 1>>,
                           <<3, 2, 0, 1>>, <<1, 3, 0, 2>>, <<1, 2, 3, 0>>,
                           <<1, 0, 3, 2>>, <<2, 3, 0, 1>>, <<3, 2, 1, 0>> >>

C29_Witness ==
    /\ n = 4
    /\ dr_res.tag = "Some"
    /\ Len(dr_res.val) = 9
    /\ dr_res.val[1] = <<3, 0, 1, 2>>
    /\ dr_res.val[9] = <<3, 2, 1, 0>>

(***************************************************************************)
(* DistinctDerangements against MultisetPermutations (SpecDD)              *)
(***************************************************************************)
\* What multiset_permutations(iter) emits, keeping the arrangements in which
\* no position i holds the value i.
KeptMultisetPermutations ==
    SelectSeq(MultisetPermutations_collect(multiset_permutations(iter)),
              NoValueAtItsIndex)

\* C30: distinct_derangements(M) emits exactly the subsequence, in unchanged
\* order, of what multiset_permutations(M) emits, keeping those in which no
\* position i holds the value i; the initial descending buffer is emitted
\* only if it has no such position, and when it is rejected the first
\* next() goes on shifting in the same call, so that call already returns
\* the first kept arrangement if there is one.
C30_DistinctDerangementsFilterMultiset ==
    LET kept    == KeptMultisetPermutations
        initial == sort_unstable_desc(iter)
    IN  /\ Len(dd_out) <= Len(kept)
        /\ dd_out = SubSeq(kept, 1, Len(dd_out))
        /\ dd_done => dd_out = kept
        /\ (dd_last # NoCall /\ kept # <<>>) => dd_out # <<>>
        /\ (dd_last # NoCall /\ kept = <<>>) => dd_last = None
        /\ (dd_out # <<>> /\ dd_out[1] = initial) => NoValueAtItsIndex(initial)
        /\ (dd_out # <<>> /\ NoValueAtItsIndex(initial)) => dd_out[1] = initial

\* The initial buffer [2,1,0] holds 1 at position 1: the first call has
\* skipped it and returned the next kept arrangement.
C30_Witness ==
    /\ ctor = "distinct_derangements"
    /\ iter = <<0, 1, 2>>
    /\ Len(dd_out) = 1
    /\ dd_last.tag = "Some"
    /\ dd_out[1] # <<2, 1, 0>>
    /\ Len(KeptMultisetPermutations) = 2

(***************************************************************************)
(* The two phases of DerangementsRangeIterator (SpecRange)                 *)
(***************************************************************************)
\* A step that is a call of DerangementsRangeIterator::next: the functions'
\* results stay as they are.
DRICall == dri_last' # NoCall /\ UNCHANGED fnVars

\* The inner iterator a call starts with: the first call builds the one for
\* size n - 1.
InnerAtEntry == IF dri.init THEN derangements_by_range(n - 1) ELSE dri.lag[1]

\* C31: DerangementsRangeIterator for n >= 2 is a two-phase state machine.
\* lag1_done goes from false to true at most once and never back; the inner
\* iterator is one for size n - 1 while lag1_done is false and one for size
\* n - 2 afterwards, and the switch is made by the call in which the n - 1
\* inner iterator first returns None; up to the first None an arrangement
\* emitted while lag1_done is false is built from a parent of size n - 1
\* and one emitted afterwards from a parent of size n - 2, so the former
\* all come first; an inner derangement is pulled exactly by the calls that
\* find count = n - 1, which is once per n - 1 emitted arrangements.
C31_TwoPhaseStateMachine ==
    [][(n >= 2 /\ n <= MaxN /\ DRICall) =>
         LET pulls == dri.count = n - 1
             inner == DerangementsRangeIterator_next(InnerAtEntry)
         IN  /\ dri.lag1_done => dri'.lag1_done
             /\ dri'.lag # <<>> =>
                   dri'.lag[1].n = (IF dri'.lag1_done THEN n - 2 ELSE n - 1)
             /\ (~dri.lag1_done /\ dri'.lag1_done) <=>
                   (~dri.lag1_done /\ pulls /\ inner.ret = None)
             /\ dri.count \in 0 .. (n - 1)
             /\ ~pulls =>
                   /\ dri'.lag = <<InnerAtEntry>>
                   /\ dri'.lag1_done = dri.lag1_done
                   /\ Len(dri'.curr_lag) = Len(dri.curr_lag)
             /\ (pulls /\ ~dri.lag1_done /\ inner.ret.tag = "Some") =>
                   /\ dri'.lag = <<inner.self>>
                   /\ dri'.curr_lag = inner.ret.val
             /\ dri_last'.tag = "Some" =>
                   dri'.count = (IF pulls THEN 1 ELSE dri.count + 1)
             /\ (dri_last'.tag = "Some" /\ ~dri_done) =>
                   IF dri'.lag1_done
                   THEN Len(dri'.curr_lag) = n - 2
                   ELSE /\ Len(dri'.curr_lag) = n - 1
                        /\ dri_last'.val =
                              ChildBySplit(dri'.curr_lag, n, dri'.count - 1)]_vars

\* Size 4 after the switch: the seventh arrangement is the first one built
\* from a derangement of size 2.
C31_Witness ==
    /\ n = 4
    /\ ~dri_done
    /\ dri.lag1_done
    /\ dri.lag[1].n = 2
    /\ Len(dri_out) = 7
    /\ dri_out[7] = <<1, 0, 3, 2>>
    /\ dri.curr_lag = <<1, 0>>

(***************************************************************************)
(* DerangementsRangeIterator after its first None (SpecRange)              *)
(***************************************************************************)
\* C32: after DerangementsRangeIterator::next (for any n >= 2) has returned
\* None once, every subsequent call also returns None: the call that
\* returned None left count, curr_lag and lag1_done in a state from which
\* no further arrangement is produced.
C32_NoneIsFinal ==
    [][(n >= 2 /\ n <= MaxN /\ DRICall /\ dri_done) => dri_last' = None]_vars

(***************************************************************************)
(* Faults of DerangementsRangeIterator up to its first None (SpecRange)    *)
(***************************************************************************)
\* C33: for every n, no call of DerangementsRangeIterator::next up to and
\* including the first None faults.  In phase 2 the value i = n - 2 - count
\* searched for in the current parent of size n - 2 is present (after the
\* call it has become i + 1 and the parent's values are still distinct) and
\* the insert position i is within bounds; in phase 1 the swap positions
\* count and n - 1 are within the pushed vector.
C33_NoFaultBeforeFirstNone ==
    [][(n <= MaxN /\ DRICall /\ ~dri_done) =>
         /\ dri_last'.tag \in {"Some", "None"}
         /\ (dri_last'.tag = "Some" /\ n >= 2) =>
               LET count  == dri'.count - 1
                   parent == dri'.curr_lag
               IN  IF ~dri'.lag1_done
                   THEN /\ Len(parent) + 1 = n
                        /\ count < Len(parent) + 1
                        /\ n - 1 < Len(parent) + 1
                   ELSE /\ Len(parent) = n - 2
                        /\ Cardinality(Elems(parent)) = Len(parent)
                        /\ count >= 1 =>
                              LET i == n - 2 - count
                              IN  /\ i \in 0 .. Len(parent)
                                  /\ i \notin Elems(parent)
                                  /\ i + 1 \in Elems(parent)
                                  /\ dri_last'.val[i + 1] = n - 1
                                  /\ dri_last'.val[n] = i]_vars

\* Size 5 in phase 2: the third insertion into a parent of size 3.
C33_Witness ==
    /\ n = 5
    /\ ~dri_done
    /\ dri.lag1_done
    /\ dri.count = 4
    /\ dri_last.tag = "Some"
    /\ dri_last.val[1] = 4
    /\ dri_last.val[5] = 0

(***************************************************************************)
(* Buffer accesses of the generators (SpecFused)                           *)
(***************************************************************************)
\* The positions next() touches in a buffer of this length with this cursor
\* exist: the exhaustion test reads position index + 1 only when it is
\* below the length; unless the test ends the call, index + 1 is below the
\* length (so there are two elements and buffer[1] exists for the cursor
\* update), positions index and index + 2 are read only when index + 2 is
\* below the length, and the shift index is at most length - 1.
AccessesInBounds(buffer, index) ==
    LET length == Len(buffer)
        has_two_next == index + 2 < length
    IN  /\ index >= 0
        /\ (~has_two_next /\ ~(length <= index + 1)) => index + 1 \in 0 .. (length - 1)
        /\ ~Exhausted(buffer, index) =>
              /\ index + 1 < length
              /\ length >= 2
              /\ has_two_next => {index, index + 2} \subseteq 0 .. (length - 1)
              /\ ShiftIndex(buffer, index) \in 1 .. (length - 1)

\* C34: when 0 <= k <= n, no next() call of FastPermutations or
\* DistinctPermutations reads or writes outside its buffers, for every
\* input including sizes 0, 1 and 2: a shift is attempted only when
\* index + 1 < length (so length >= 2 and buffer[1] exists), the chosen
\* shift index is at most length - 1, the prefix 0..k lies within values,
\* and no call faults.
C34_NoAccessOutsideBuffers ==
    /\ ctor = "fast_permutations" =>
          /\ AccessesInBounds(fp.buffer, fp.index)
          /\ Len(fp.values) = Len(fp.buffer)
          /\ fp.k \in 0 .. Len(fp.values)
          /\ fp_last.tag # "Panic"
    /\ ctor = "distinct_permutations" =>
          /\ AccessesInBounds(dp.buffer, dp.index)
          /\ dp_last.tag # "Panic"

\* Size 2: the one shift has been made and the next call has found the
\* generator exhausted.
C34_Witness ==
    /\ ctor = "distinct_permutations"
    /\ iter = <<0, 1>>
    /\ dp_done
    /\ dp_out = << <<1, 0>>, <<0, 1>> >>
    /\ dp.index = 0
    /\ Exhausted(dp.buffer, dp.index)

====
